---------------------------- MODULE Spec2Model ----------------------------
(***************************************************************************)
(* A model of the combat and progression simulation of the survival game:  *)
(* Game (main.py), Player, Enemy, EnemySpawner, Weapon / WeaponController,  *)
(* the attack effects (Projectile, WhipSlash, GarlicAura) and DropManager.  *)
(*                                                                         *)
(* Numbers.  Times are integer milliseconds.  A weapon's cooldown and its  *)
(* CooldownTimer are kept in 1/100 ms so that the cooldown-reduction       *)
(* percentage stays exact.  Damage and enemy HP are kept in 1/100 HP so    *)
(* that might (tenths) and the evolution multipliers (tenths) stay exact.  *)
(* The player's hp, max_hp and regen are kept in 1/10 HP.  Floating point  *)
(* rounding of the Python floats is not modelled.                          *)
(*                                                                         *)
(* Space.  The position of an enemy or of an attack effect is one of two    *)
(* cells relative to the player: 0 = at the player (overlapping the        *)
(* player's hitbox, inside the Garlic aura), 1 = away from the player.     *)
(* Two rectangles collide when they are in the same cell.  Where a sprite  *)
(* moves in one tick is a nondeterministic input.  The distance of a drop  *)
(* to the player is an input of every tick.                                *)
(*                                                                         *)
(* Identity.  id(enemy) is the enemy's serial number (the spawner's        *)
(* total_spawned when it was created); CPython's reuse of the ids of dead  *)
(* objects is not modelled.                                                *)
(*                                                                         *)
(* Specifications.  Spec is the game loop with its menus; SpecInv calls    *)
(* the WeaponController directly; SpecSpawner calls EnemySpawner.update    *)
(* alone, with positions in pixels; SpecChest is the game loop around    *)
(* chests placed by DropManager.spawn_chest; SpecPlayer calls gain_xp and  *)
(* get_hit on a new player; SpecDrop runs Drop.update on one gem, with its *)
(* position in 1/1000 pixel.                                               *)
(***************************************************************************)
EXTENDS Integers, Sequences, FiniteSets, TLC

VARIABLES
    now,               \* pygame.time.get_ticks(): wall clock, ms
    dt,                \* Game.dt: the (capped) length of the current frame, ms
    in_main_menu,      \* Game.in_main_menu
    game_started,      \* Game.game_started
    paused,            \* Game.paused
    level_up_active,   \* Game.level_up_active
    game_over,         \* Game.game_over
    game_time,         \* Game.game_time, ms
    cheat,             \* Game.cheat_settings
    player,            \* Game.player
    weapons,           \* WeaponController.weapons: weapon_id -> Weapon
    passives,          \* WeaponController.passives: passive_id -> level
    spawner,           \* Game.spawner
    enemy_group,       \* Game.enemy_group, in insertion order
    projectile_group,  \* Game.projectile_group (without the aura), in insertion order
    aura_timers,       \* GarlicAura.damage_timers: id(enemy) -> ms
    drop_group,        \* Game.drop_group, in insertion order
    options,           \* LevelUpMenu.options
    steps,             \* number of steps taken so far (observation only)
    hist,              \* what happened earlier in the session (observation only)
    ev                 \* what the last call did (observation only, never read by the program)

vars == <<now, dt, in_main_menu, game_started, paused, level_up_active, game_over,
          game_time, cheat, player, weapons, passives, spawner, enemy_group,
          projectile_group, aura_timers, drop_group, options, steps, hist, ev>>

-----------------------------------------------------------------------------
(* Bounds of the model *)

\* steps (frames and inputs) explored from an initial state of the game
MaxSteps == 5
\* enemies alive at once
MaxEnemies == 3
\* controller calls explored from an initial inventory
MaxUpgrades == 2
\* the chests that lie on the ground at once
MaxChests == 2
\* Player calls explored from a new player
MaxCalls == 3

-----------------------------------------------------------------------------
(* settings.py *)

WeaponIds == {"whip", "wand", "garlic", "axe", "knife"}

\* the insertion order of WEAPON_DATA
WeaponOrder == <<"whip", "wand", "garlic", "axe", "knife">>

PassiveIds == {"might_boost", "max_hp_boost", "regen_boost", "pickup_boost",
               "armor_boost", "speed_boost", "cooldown_boost"}

\* the insertion order of PASSIVE_DATA
PassiveOrder == <<"might_boost", "max_hp_boost", "regen_boost", "pickup_boost",
                  "armor_boost", "speed_boost", "cooldown_boost">>

\* base_cooldown and scaling.cooldown in ms, base_area and scaling.area in 1/100
WEAPON_DATA == [w \in WeaponIds |->
    CASE w = "whip" ->
           [base_damage |-> 20, base_cooldown |-> 1500, base_area |-> 100,
            base_amount |-> 1, base_pierce |-> 999, max_level |-> 8,
            scaling |-> [damage |-> 5, cooldown |-> -100, area |-> 10, amount |-> 0],
            evolution |-> "bloody_whip", evolution_passive |-> "might_boost"]
      [] w = "wand" ->
           [base_damage |-> 10, base_cooldown |-> 1000, base_area |-> 100,
            base_amount |-> 1, base_pierce |-> 1, max_level |-> 8,
            scaling |-> [damage |-> 3, cooldown |-> -80, area |-> 0, amount |-> 1],
            evolution |-> "holy_wand", evolution_passive |-> "cooldown_boost"]
      [] w = "garlic" ->
           [base_damage |-> 5, base_cooldown |-> 500, base_area |-> 100,
            base_amount |-> 1, base_pierce |-> 999, max_level |-> 8,
            scaling |-> [damage |-> 2, cooldown |-> -30, area |-> 15, amount |-> 0],
            evolution |-> "soul_eater", evolution_passive |-> "regen_boost"]
      [] w = "axe" ->
           [base_damage |-> 25, base_cooldown |-> 2000, base_area |-> 100,
            base_amount |-> 1, base_pierce |-> 999, max_level |-> 8,
            scaling |-> [damage |-> 8, cooldown |-> -120, area |-> 10, amount |-> 1],
            evolution |-> "death_spiral", evolution_passive |-> "max_hp_boost"]
      [] OTHER ->
           [base_damage |-> 8, base_cooldown |-> 300, base_area |-> 100,
            base_amount |-> 1, base_pierce |-> 1, max_level |-> 8,
            scaling |-> [damage |-> 2, cooldown |-> -20, area |-> 0, amount |-> 1],
            evolution |-> "thousand_edge", evolution_passive |-> "speed_boost"]]

EvolutionIds == {"bloody_whip", "holy_wand", "soul_eater"}

\* damage_mult in tenths
EVOLUTION_DATA == [e \in EvolutionIds |->
    CASE e = "bloody_whip" -> [base_weapon |-> "whip", damage_mult |-> 20]
      [] e = "holy_wand" -> [base_weapon |-> "wand", damage_mult |-> 15]
      [] OTHER -> [base_weapon |-> "garlic", damage_mult |-> 18]]

\* value: might in tenths, regen in tenths of HP per second, cooldown_reduction,
\* pickup_radius and move_speed in percent (multiples of ten)
PASSIVE_DATA == [p \in PassiveIds |->
    CASE p = "might_boost" -> [stat |-> "might", value |-> 1, max_level |-> 5]
      [] p = "max_hp_boost" -> [stat |-> "max_hp", value |-> 20, max_level |-> 5]
      [] p = "regen_boost" -> [stat |-> "regen", value |-> 5, max_level |-> 5]
      [] p = "pickup_boost" -> [stat |-> "pickup_radius", value |-> 20, max_level |-> 5]
      [] p = "armor_boost" -> [stat |-> "armor", value |-> 1, max_level |-> 5]
      [] p = "speed_boost" -> [stat |-> "move_speed", value |-> 10, max_level |-> 5]
      [] OTHER -> [stat |-> "cooldown_reduction", value |-> 8, max_level |-> 5]]

MAX_WEAPONS == 6
MAX_PASSIVES == 6

\* PLAYER_SETTINGS: might in tenths, i_frames_duration in ms; pickup_radius is
\* kept times 5^5 and move_speed times 10^5 so that five percentage boosts stay exact
PLAYER_SETTINGS == [max_hp |-> 100, move_speed |-> 20000000, pickup_radius |-> 250000,
                    might |-> 10, cooldown_reduction |-> 0, armor |-> 0, regen |-> 0,
                    size |-> 24, i_frames_duration |-> 500]

XP_SETTINGS == [base_xp_to_level |-> 100, xp_per_level_increase |-> 50]


-----------------------------------------------------------------------------
(* Helpers *)

Max(a, b) == IF a >= b THEN a ELSE b

Min(a, b) == IF a <= b THEN a ELSE b

\* the dictionary d with d[k] = v (inserted or replaced)
Put(d, k, v) == [x \in (DOMAIN d) \cup {k} |-> IF x = k THEN v ELSE d[x]]

\* the elements of sequence s that are in the set S, in order
RECURSIVE SelectIds(_, _)
SelectIds(s, S) ==
    IF s = <<>> THEN <<>>
    ELSE IF Head(s) \in S THEN <<Head(s)>> \o SelectIds(Tail(s), S)
    ELSE SelectIds(Tail(s), S)

-----------------------------------------------------------------------------
(* utils.py: CooldownTimer, in 1/100 ms *)

\* CooldownTimer.__init__: last_time = -duration allows immediate first use
CooldownTimer(duration) == [duration |-> duration, last_time |-> -duration]

\* CooldownTimer.ready at wall clock t (ms)
TimerReady(timer, t) == t * 100 - timer.last_time >= timer.duration

\* CooldownTimer.reset at wall clock t (ms)
TimerReset(timer, t) == [timer EXCEPT !.last_time = t * 100]

-----------------------------------------------------------------------------
(* entities/player.py *)

\* Player.__init__
NewPlayer ==
    [max_hp |-> PLAYER_SETTINGS.max_hp * 10, hp |-> PLAYER_SETTINGS.max_hp * 10,
     move_speed |-> PLAYER_SETTINGS.move_speed,
     pickup_radius |-> PLAYER_SETTINGS.pickup_radius,
     might |-> PLAYER_SETTINGS.might,
     cooldown_reduction |-> PLAYER_SETTINGS.cooldown_reduction,
     armor |-> PLAYER_SETTINGS.armor, regen |-> PLAYER_SETTINGS.regen,
     level |-> 1, xp |-> 0, xp_to_next_level |-> XP_SETTINGS.base_xp_to_level \div 2,
     i_frames_timer |-> 0, is_invincible |-> FALSE,
     i_frames_duration |-> PLAYER_SETTINGS.i_frames_duration,
     kills |-> 0, damage_dealt |-> 0, damage_taken |-> 0,
     regen_timer |-> 0, dead |-> FALSE]

\* Player.apply_passive
ApplyPassive(pl, passive_data) ==
    LET stat == passive_data.stat
        value == passive_data.value
    IN CASE stat = "might" -> [pl EXCEPT !.might = @ + value]
         [] stat = "max_hp" -> [pl EXCEPT !.max_hp = @ + value * 10, !.hp = @ + value * 10]
         [] stat = "regen" -> [pl EXCEPT !.regen = @ + value]
         [] stat = "pickup_radius" ->
                [pl EXCEPT !.pickup_radius = (@ \div 10) * ((100 + value) \div 10)]
         [] stat = "armor" -> [pl EXCEPT !.armor = @ + value]
         [] stat = "move_speed" ->
                [pl EXCEPT !.move_speed = (@ \div 10) * ((100 + value) \div 10)]
         [] stat = "cooldown_reduction" -> [pl EXCEPT !.cooldown_reduction = @ + value]
         [] OTHER -> pl

-----------------------------------------------------------------------------
(* weapons/weapon_base.py *)

\* Weapon._recalculate_stats.  damage in 1/100, cooldown in 1/100 ms, area in
\* 1/100, size_multiplier in 1/(max_level - 1)
RecalculateStats(wp, pl) ==
    LET data == WEAPON_DATA[wp.weapon_id]
        scaling == data.scaling
        level_bonus == wp.level - 1
        damage == data.base_damage + scaling.damage * level_bonus
        cooldown == Max(100, data.base_cooldown + scaling.cooldown * level_bonus)
        cd == cooldown * (100 - pl.cooldown_reduction)
    IN [wp EXCEPT
          !.damage = damage * pl.might * 10,
          !.cooldown = cd,
          !.area = data.base_area + scaling.area * level_bonus,
          !.amount = IF scaling.amount > 0
                       THEN data.base_amount + (level_bonus \div 2) * scaling.amount
                       ELSE data.base_amount,
          !.size_multiplier = IF wp.max_level > 1
                                THEN (wp.max_level - 1) + (wp.level - 1) * 2
                                ELSE wp.max_level - 1,
          !.cooldown_timer = CooldownTimer(cd)]

\* Weapon.__init__ (and the subclasses' __init__)
NewWeapon(weapon_id, pl) ==
    LET data == WEAPON_DATA[weapon_id]
    IN RecalculateStats(
         [weapon_id |-> weapon_id, level |-> 1, max_level |-> data.max_level,
          damage |-> data.base_damage * 100, cooldown |-> data.base_cooldown * 100,
          area |-> data.base_area, amount |-> data.base_amount,
          pierce |-> data.base_pierce, size_multiplier |-> data.max_level - 1,
          cooldown_timer |-> CooldownTimer(data.base_cooldown * 100),
          evolved |-> FALSE, evolution_id |-> data.evolution,
          evolution_passive |-> data.evolution_passive, homing |-> FALSE], pl)

\* a variant of level_up without the max_level test
LevelUpUncapped(wp, pl) == <<TRUE, RecalculateStats([wp EXCEPT !.level = @ + 1], pl)>>

\* Weapon.level_up: <<returned value, the weapon afterwards>>
LevelUp(wp, pl) ==
    IF wp.level < wp.max_level
      THEN <<TRUE, RecalculateStats([wp EXCEPT !.level = @ + 1], pl)>>
      ELSE <<FALSE, wp>>

\* a variant of can_evolve that does not look at `evolved`
CanEvolveAgain(wp, passive_inventory) ==
    wp.level >= wp.max_level /\ wp.evolution_passive \in passive_inventory

\* Weapon.can_evolve; passive_inventory is the set of held passive ids
CanEvolve(wp, passive_inventory) ==
    IF wp.evolved \/ wp.evolution_id = "" THEN FALSE
    ELSE IF wp.level < wp.max_level THEN FALSE
    ELSE IF wp.evolution_passive # "" /\ wp.evolution_passive \in passive_inventory
           THEN TRUE
    ELSE FALSE

\* Weapon.evolve (WandWeapon.evolve sets homing): <<returned value, the weapon afterwards>>
Evolve(wp) ==
    IF wp.evolution_id = "" THEN <<FALSE, wp>>
    ELSE IF wp.evolution_id \notin DOMAIN EVOLUTION_DATA THEN <<FALSE, wp>>
    ELSE <<TRUE,
           [wp EXCEPT !.evolved = TRUE,
                      !.damage = (@ * EVOLUTION_DATA[wp.evolution_id].damage_mult) \div 10,
                      !.homing = IF wp.weapon_id = "wand" THEN TRUE ELSE @]>>

-----------------------------------------------------------------------------
(* weapons/controller.py: WeaponController.  The inventory is the record    *)
(* [weapons, passives, player]; dictionaries are iterated in the order of   *)
(* settings.py instead of their insertion order.                            *)

Inventory(ws, ps, pl) == [weapons |-> ws, passives |-> ps, player |-> pl]

\* a variant of _update_weapon_stats that recomputes nothing
StaleWeaponStats(ws, pl) == ws

\* WeaponController._update_weapon_stats
UpdateWeaponStats(ws, pl) == [w \in DOMAIN ws |-> RecalculateStats(ws[w], pl)]

\* WeaponController.add_weapon: <<returned value, the inventory afterwards>>
AddWeapon(inv, weapon_id) ==
    IF weapon_id \in DOMAIN inv.weapons
      THEN LET r == LevelUp(inv.weapons[weapon_id], inv.player)
           IN <<r[1], [inv EXCEPT !.weapons = Put(@, weapon_id, r[2])]>>
    ELSE IF Cardinality(DOMAIN inv.weapons) >= MAX_WEAPONS THEN <<FALSE, inv>>
    ELSE IF weapon_id \in WeaponIds
      THEN <<TRUE, [inv EXCEPT !.weapons = Put(@, weapon_id, NewWeapon(weapon_id, inv.player))]>>
    ELSE <<FALSE, inv>>

\* the shared tail of add_passive: apply_passive, then _update_weapon_stats
PassiveApplied(inv, passive_id, level) ==
    LET pl == ApplyPassive(inv.player, PASSIVE_DATA[passive_id])
    IN [weapons |-> UpdateWeaponStats(inv.weapons, pl),
        passives |-> Put(inv.passives, passive_id, level),
        player |-> pl]

\* a variant of add_passive whose refused calls still apply the passive to the
\* player
AddPassiveUnchecked(inv, passive_id) ==
    IF passive_id \in DOMAIN inv.passives
         /\ inv.passives[passive_id] < PASSIVE_DATA[passive_id].max_level
      THEN <<TRUE, PassiveApplied(inv, passive_id, inv.passives[passive_id] + 1)>>
    ELSE IF passive_id \notin DOMAIN inv.passives
            /\ Cardinality(DOMAIN inv.passives) < MAX_PASSIVES
      THEN <<TRUE, PassiveApplied(inv, passive_id, 1)>>
    ELSE <<FALSE, [inv EXCEPT !.player = ApplyPassive(@, PASSIVE_DATA[passive_id])]>>

\* WeaponController.add_passive: <<returned value, the inventory afterwards>>
AddPassive(inv, passive_id) ==
    IF passive_id \notin PassiveIds THEN <<FALSE, inv>>
    ELSE IF passive_id \in DOMAIN inv.passives
      THEN IF inv.passives[passive_id] < PASSIVE_DATA[passive_id].max_level
             THEN <<TRUE, PassiveApplied(inv, passive_id, inv.passives[passive_id] + 1)>>
             ELSE <<FALSE, inv>>
    ELSE IF Cardinality(DOMAIN inv.passives) >= MAX_PASSIVES THEN <<FALSE, inv>>
    ELSE <<TRUE, PassiveApplied(inv, passive_id, 1)>>

\* WeaponController.check_evolutions
CheckEvolutions(inv) ==
    SelectIds(WeaponOrder,
              {w \in DOMAIN inv.weapons : CanEvolve(inv.weapons[w], DOMAIN inv.passives)})

\* WeaponController.evolve_weapon: <<returned value, the inventory afterwards>>
EvolveWeapon(inv, weapon_id) ==
    IF weapon_id \in DOMAIN inv.weapons
      THEN LET r == Evolve(inv.weapons[weapon_id])
           IN <<r[1], [inv EXCEPT !.weapons = Put(@, weapon_id, r[2])]>>
      ELSE <<FALSE, inv>>

\* WeaponController.apply_upgrade: <<returned value, the inventory afterwards>>
ApplyUpgrade(inv, upgrade_type, upgrade_id) ==
    CASE upgrade_type = "weapon" -> AddWeapon(inv, upgrade_id)
      [] upgrade_type = "passive" -> AddPassive(inv, upgrade_id)
      [] upgrade_type = "evolution" -> EvolveWeapon(inv, upgrade_id)
      [] OTHER -> <<FALSE, inv>>

\* one candidate of get_upgrade_options: (type, id, is_new, level)
Option(type, id, is_new, level) ==
    [type |-> type, id |-> id, is_new |-> is_new, level |-> level]

RECURSIVE MapOptions(_, _, _, _)
\* the candidates of one kind for the ids of sequence s
MapOptions(s, type, is_new, levels) ==
    IF s = <<>> THEN <<>>
    ELSE <<Option(type, Head(s), is_new, IF is_new THEN 0 ELSE levels[Head(s)])>>
         \o MapOptions(Tail(s), type, is_new, levels)

\* get_upgrade_options, the list `possible` before it is shuffled
Possible(inv) ==
    LET ws == inv.weapons
        ps == inv.passives
        owned == DOMAIN ws
        held == DOMAIN ps
    IN MapOptions(SelectIds(WeaponOrder, {w \in owned : ws[w].level < ws[w].max_level}),
                  "weapon", FALSE, [w \in owned |-> ws[w].level])
       \o (IF Cardinality(owned) < MAX_WEAPONS
             THEN MapOptions(SelectIds(WeaponOrder, WeaponIds \ owned), "weapon", TRUE, <<>>)
             ELSE <<>>)
       \o MapOptions(SelectIds(PassiveOrder,
                               {p \in held : ps[p] < PASSIVE_DATA[p].max_level}),
                     "passive", FALSE, ps)
       \o (IF Cardinality(held) < MAX_PASSIVES
             THEN MapOptions(SelectIds(PassiveOrder, PassiveIds \ held), "passive", TRUE, <<>>)
             ELSE <<>>)
       \o MapOptions(CheckEvolutions(inv), "evolution", FALSE, [w \in owned |-> 0])

\* the outcomes of random.shuffle(possible) that are explored: the rotations
Shuffles(possible) ==
    {[i \in 1..Len(possible) |-> possible[((i + r - 1) % Len(possible)) + 1]] :
       r \in 0..(Len(possible) - 1)}

\* a variant of the selection without the padding loop
Unpadded(possible, count) ==
    {SubSeq(shuffled, 1, Min(count, Len(possible))) : shuffled \in Shuffles(possible)}

\* the lists get_upgrade_options can return for the candidates `possible`:
\* the first `count` of the shuffled list, padded with random.choice while
\* the list is short and `possible` is not empty
Shuffled(possible, count) ==
    IF possible = <<>> THEN {<<>>}
    ELSE {SubSeq(shuffled, 1, Min(count, Len(possible)))
            \o [i \in 1..(count - Min(count, Len(possible))) |-> possible[f[i]]] :
          shuffled \in Shuffles(possible),
          f \in [1..(count - Min(count, Len(possible))) -> 1..Len(possible)]}

\* get_upgrade_options(count): the lists the call can return
GetUpgradeOptions(inv, count) == Shuffled(Possible(inv), count)

-----------------------------------------------------------------------------
(* entities/player.py: combat and progression.  hp in 1/10 HP, timers in ms *)

\* a variant of heal without the cap at max_hp
HealUncapped(pl, amount) == [pl EXCEPT !.hp = pl.hp + amount]

\* Player.heal
Heal(pl, amount) == [pl EXCEPT !.hp = Min(pl.hp + amount, pl.max_hp)]

\* a variant of get_hit that does not clamp the hp of a dead player
GetHitUnclamped(pl, damage, unlimited) ==
    IF pl.is_invincible \/ pl.dead THEN <<FALSE, pl>>
    ELSE IF unlimited
      THEN <<FALSE, [pl EXCEPT !.is_invincible = TRUE,
                               !.i_frames_timer = pl.i_frames_duration]>>
    ELSE <<pl.hp <= Max(1, damage - pl.armor) * 10,
           [pl EXCEPT !.hp = @ - Max(1, damage - pl.armor) * 10,
                      !.damage_taken = @ + Max(1, damage - pl.armor),
                      !.is_invincible = TRUE,
                      !.i_frames_timer = pl.i_frames_duration,
                      !.dead = pl.hp <= Max(1, damage - pl.armor) * 10]>>

\* Player.get_hit: <<returned value (the player died), the player afterwards>>.
\* damage is in HP; unlimited is cheat_settings['unlimited_health']
GetHit(pl, damage, unlimited) ==
    IF pl.is_invincible \/ pl.dead THEN <<FALSE, pl>>
    ELSE IF unlimited
      THEN <<FALSE, [pl EXCEPT !.is_invincible = TRUE,
                               !.i_frames_timer = pl.i_frames_duration]>>
    ELSE LET actual_damage == Max(1, damage - pl.armor)
             hit == [pl EXCEPT !.hp = @ - actual_damage * 10,
                               !.damage_taken = @ + actual_damage,
                               !.is_invincible = TRUE,
                               !.i_frames_timer = pl.i_frames_duration]
         IN IF hit.hp <= 0
              THEN <<TRUE, [hit EXCEPT !.hp = 0, !.dead = TRUE]>>
              ELSE <<FALSE, hit>>

\* a variant of level_up whose threshold is not halved
PlayerLevelUpFullCurve(pl) ==
    Heal([pl EXCEPT !.xp = @ - pl.xp_to_next_level,
                    !.level = @ + 1,
                    !.xp_to_next_level = XP_SETTINGS.base_xp_to_level
                                           + pl.level * XP_SETTINGS.xp_per_level_increase],
         pl.max_hp \div 10)

\* Player.level_up
PlayerLevelUp(pl) ==
    LET level == pl.level + 1
        base_xp == XP_SETTINGS.base_xp_to_level
                     + (level - 1) * XP_SETTINGS.xp_per_level_increase
    IN Heal([pl EXCEPT !.xp = @ - pl.xp_to_next_level,
                       !.level = level,
                       !.xp_to_next_level = base_xp \div 2],
            pl.max_hp \div 10)

\* Player.gain_xp: <<returned value (a level was gained), the player afterwards>>
GainXp(pl, amount) ==
    LET gained == [pl EXCEPT !.xp = @ + amount]
    IN IF gained.xp >= gained.xp_to_next_level
         THEN <<TRUE, PlayerLevelUp(gained)>>
         ELSE <<FALSE, gained>>

\* a variant of update_i_frames that ends the invincibility at once
EndIFrames(pl, d) == [pl EXCEPT !.is_invincible = FALSE, !.i_frames_timer = 0]

\* Player.update_i_frames
UpdateIFrames(pl, d) ==
    IF pl.is_invincible
      THEN IF pl.i_frames_timer - d <= 0
             THEN [pl EXCEPT !.is_invincible = FALSE, !.i_frames_timer = 0]
             ELSE [pl EXCEPT !.i_frames_timer = @ - d]
      ELSE pl

\* Player.update_regen
UpdateRegen(pl, d) ==
    IF pl.regen > 0 /\ pl.hp < pl.max_hp
      THEN IF pl.regen_timer + d >= 1000
             THEN Heal([pl EXCEPT !.regen_timer = 0], pl.regen)
             ELSE [pl EXCEPT !.regen_timer = @ + d]
      ELSE pl

\* Player.update (input and move change only the position)
PlayerUpdate(pl, d) ==
    IF pl.dead THEN pl ELSE UpdateRegen(UpdateIFrames(pl, d), d)

-----------------------------------------------------------------------------
(* entities/enemy.py.  hp in 1/100 HP, damage in HP, damage_cooldown in ms  *)

Cells == {0, 1}

EnemyTypes == {"chaser", "tank", "swarm", "ghost", "bat", "boss"}

ENEMY_DATA == [t \in EnemyTypes |->
    CASE t = "chaser" -> [hp |-> 10, damage |-> 10, xp_value |-> 1,
                          spawn_weight |-> 50, spawn_count |-> 1]
      [] t = "tank" -> [hp |-> 50, damage |-> 20, xp_value |-> 5,
                        spawn_weight |-> 20, spawn_count |-> 1]
      [] t = "swarm" -> [hp |-> 5, damage |-> 5, xp_value |-> 1,
                         spawn_weight |-> 30, spawn_count |-> 5]
      [] t = "ghost" -> [hp |-> 15, damage |-> 15, xp_value |-> 3,
                         spawn_weight |-> 15, spawn_count |-> 1]
      [] t = "bat" -> [hp |-> 8, damage |-> 8, xp_value |-> 2,
                       spawn_weight |-> 25, spawn_count |-> 1]
      [] OTHER -> [hp |-> 500, damage |-> 30, xp_value |-> 50,
                   spawn_weight |-> 0, spawn_count |-> 1]]

\* Enemy.__init__; difficulty_mult is the fraction mult[1] / mult[2] and int()
\* truncates
NewEnemy(id, enemy_type, cell, mult) ==
    LET data == ENEMY_DATA[enemy_type]
        max_hp == (data.hp * mult[1]) \div mult[2]
    IN [id |-> id, enemy_type |-> enemy_type,
        max_hp |-> max_hp * 100, hp |-> max_hp * 100,
        damage |-> (data.damage * (mult[1] + mult[2])) \div (2 * mult[2]),
        xp_value |-> data.xp_value, cell |-> cell, damage_cooldown |-> 0]

\* Enemy.take_damage: <<returned value (the enemy died), the enemy afterwards>>
TakeDamage(enemy, damage) ==
    LET hurt == [enemy EXCEPT !.hp = @ - damage]
    IN <<hurt.hp <= 0, hurt>>

\* Enemy.can_damage
CanDamage(enemy) == enemy.damage_cooldown <= 0

\* a variant of reset_damage_cooldown that leaves the cooldown as it is
KeepDamageCooldown(enemy) == enemy

\* Enemy.reset_damage_cooldown
ResetDamageCooldown(enemy) == [enemy EXCEPT !.damage_cooldown = 500]

\* Enemy.update; cell is where move_towards_player takes the enemy
EnemyUpdate(enemy, d, cell) ==
    [enemy EXCEPT !.cell = cell,
                  !.damage_cooldown = IF @ > 0 THEN @ - d ELSE @]

\* a variant of get_drop_info that reads an enemy already removed
LateDropInfo(enemy) == [xp_value |-> 0, pos |-> 1 - enemy.cell, id |-> enemy.id]

\* Enemy.get_drop_info (id only identifies the enemy for observation)
GetDropInfo(enemy) == [xp_value |-> enemy.xp_value, pos |-> enemy.cell, id |-> enemy.id]

-----------------------------------------------------------------------------
(* systems/spawner.py.  game_time and last_boss_time in ms, spawn_timer in  *)
(* 1/100 ms; the spawn rate and the difficulty follow game_time in steps of *)
(* 50 ms                                                                    *)

SPAWNER_SETTINGS == [base_spawn_rate |-> 1, max_spawn_rate |-> 10,
                     spawn_buffer |-> 100, boss_spawn_interval |-> 600000]

\* EnemySpawner.__init__
NewSpawner == [game_time |-> 0, spawn_timer |-> 0, last_boss_time |-> 0,
               total_spawned |-> 0]

\* the enemy types _select_enemy_type can return
SpawnTypes == {t \in EnemyTypes : ENEMY_DATA[t].spawn_weight > 0}

\* EnemySpawner._get_difficulty_multiplier: 1 + 0.05 * minutes, as a fraction
DifficultyMultiplier(sp) == <<24000 + sp.game_time \div 50, 24000>>

\* 1.0 / _get_spawn_rate() in 1/100 ms: the rate is 1.0 + 0.1 * minutes, at
\* most 10.0
SpawnInterval(sp) ==
    (12000 * 100000) \div Min(12000 * SPAWNER_SETTINGS.base_spawn_rate + sp.game_time \div 50,
                              12000 * SPAWNER_SETTINGS.max_spawn_rate)

\* EnemySpawner.spawn_enemy: <<the spawner afterwards, the enemies created>>
SpawnEnemy(sp, enemy_type, cell) ==
    LET n == ENEMY_DATA[enemy_type].spawn_count
    IN <<[sp EXCEPT !.total_spawned = @ + n],
         [i \in 1..n |-> NewEnemy(sp.total_spawned + i, enemy_type, cell,
                                  DifficultyMultiplier(sp))]>>

\* a variant of spawn_boss that does not reset the boss timer
SpawnBossUntimed(sp, cell) ==
    <<[sp EXCEPT !.total_spawned = @ + 1],
      <<NewEnemy(sp.total_spawned + 1, "boss", cell,
                 <<3 * DifficultyMultiplier(sp)[1], 2 * DifficultyMultiplier(sp)[2]>>)>> >>

\* EnemySpawner.spawn_boss: <<the spawner afterwards, the enemies created>>
SpawnBoss(sp, cell) ==
    LET mult == DifficultyMultiplier(sp)
    IN <<[sp EXCEPT !.total_spawned = @ + 1, !.last_boss_time = sp.game_time],
         <<NewEnemy(sp.total_spawned + 1, "boss", cell, <<3 * mult[1], 2 * mult[2]>>)>> >>

RECURSIVE SpawnLoop(_, _, _, _)
\* the while loop of EnemySpawner.update
SpawnLoop(sp, spawn_interval, enemy_type, cell) ==
    IF sp.spawn_timer >= spawn_interval
      THEN LET r == SpawnEnemy([sp EXCEPT !.spawn_timer = @ - spawn_interval],
                               enemy_type, cell)
               rest == SpawnLoop(r[1], spawn_interval, enemy_type, cell)
           IN <<rest[1], r[2] \o rest[2]>>
      ELSE <<sp, <<>> >>

\* the boss check at the end of EnemySpawner.update; r is <<the spawner, the
\* enemies created>> after the while loop
BossCheck(r, cell) ==
    IF r[1].game_time - r[1].last_boss_time >= SPAWNER_SETTINGS.boss_spawn_interval
       /\ r[1].game_time >= SPAWNER_SETTINGS.boss_spawn_interval
      THEN <<SpawnBoss(r[1], cell)[1], r[2] \o SpawnBoss(r[1], cell)[2]>>
      ELSE r

\* EnemySpawner.update: <<the spawner afterwards, the enemies created>>.
\* enemy_type is what _select_enemy_type returns and cell where
\* _get_spawn_position puts the enemies
SpawnerUpdate(sp, d, enemy_type, cell) ==
    BossCheck(SpawnLoop([sp EXCEPT !.game_time = @ + d, !.spawn_timer = @ + d * 100],
                        SpawnInterval([sp EXCEPT !.game_time = @ + d]),
                        enemy_type, cell),
              cell)

-----------------------------------------------------------------------------
(* weapons/projectiles.py: the attack effects.  age and lifetime in ms      *)

\* the lifetime each effect class passes to Projectile.__init__ (WhipSlash
\* sets its own)
Lifetime(kind) ==
    CASE kind = "wand" -> 3000
      [] kind = "knife" -> 2000
      [] kind = "axe" -> 3000
      [] OTHER -> 200

\* Projectile.__init__ and WhipSlash.__init__; kind is the weapon that made it.
\* hit_log lists the enemies for which hit_enemy returned True, in order
\* (observation only)
NewProjectile(kind, damage, pierce, cell) ==
    [kind |-> kind, damage |-> damage, pierce |-> pierce, hits_remaining |-> pierce,
     hit_enemies |-> {}, age |-> 0, lifetime |-> Lifetime(kind), cell |-> cell,
     alive |-> TRUE, hit_log |-> <<>>]

\* a variant of hit_enemy without the test of hit_enemies
HitEnemyAgain(p, enemy_id) ==
    IF p.kind = "whip"
      THEN <<TRUE, [p EXCEPT !.hit_enemies = @ \cup {enemy_id},
                             !.hit_log = Append(@, enemy_id)]>>
    ELSE <<TRUE, [p EXCEPT !.hit_enemies = @ \cup {enemy_id},
                           !.hit_log = Append(@, enemy_id),
                           !.hits_remaining = @ - 1,
                           !.alive = IF p.hits_remaining - 1 <= 0 THEN FALSE ELSE @]>>

\* Projectile.hit_enemy and WhipSlash.hit_enemy: <<returned value, the effect
\* afterwards>>; alive = FALSE after kill()
HitEnemy(p, enemy_id) ==
    IF enemy_id \in p.hit_enemies THEN <<FALSE, p>>
    ELSE IF p.kind = "whip"
      THEN <<TRUE, [p EXCEPT !.hit_enemies = @ \cup {enemy_id},
                             !.hit_log = Append(@, enemy_id)]>>
    ELSE <<TRUE, [p EXCEPT !.hit_enemies = @ \cup {enemy_id},
                           !.hit_log = Append(@, enemy_id),
                           !.hits_remaining = @ - 1,
                           !.alive = IF p.hits_remaining - 1 <= 0 THEN FALSE ELSE @]>>

\* Projectile.update and WhipSlash.update; cell is where move takes the effect
\* (a WhipSlash does not move)
ProjectileUpdate(p, d, cell) ==
    [p EXCEPT !.cell = IF p.kind = "whip" THEN @ ELSE cell,
              !.age = @ + d,
              !.alive = IF p.age + d >= p.lifetime THEN FALSE ELSE @]

-----------------------------------------------------------------------------
(* weapons/weapon_base.py and weapons/controller.py: firing                 *)

\* the attack() of WhipWeapon, WandWeapon, AxeWeapon and KnifeWeapon: the
\* effects created (GarlicWeapon.attack does nothing).  A projectile starts at
\* the player; slash_cell is where the offset puts a WhipSlash
Attack(wp, slash_cell) ==
    IF wp.weapon_id = "garlic" THEN <<>>
    ELSE [i \in 1..wp.amount |->
            NewProjectile(wp.weapon_id, wp.damage, wp.pierce,
                          IF wp.weapon_id = "whip" THEN slash_cell ELSE 0)]

\* Weapon.update with CooldownTimer.use at wall clock t:
\* <<attack() was invoked, the weapon afterwards, the effects created>>
WeaponUpdate(wp, t, slash_cell) ==
    IF TimerReady(wp.cooldown_timer, t)
      THEN <<TRUE, [wp EXCEPT !.cooldown_timer = TimerReset(@, t)], Attack(wp, slash_cell)>>
      ELSE <<FALSE, wp, <<>> >>

\* a variant of the pruning in GarlicAura.update that forgets every timer
ForgetTimers(timers, tick_rate, t) == <<>>

\* GarlicAura.update: the per-enemy timers kept at wall clock t
PruneTimers(timers, tick_rate, t) ==
    LET kept == {k \in DOMAIN timers : (t - timers[k]) * 100 < tick_rate * 2}
    IN [k \in kept |-> timers[k]]

\* GarlicAura.can_damage_enemy at wall clock t: <<returned value, the timers afterwards>>
CanDamageEnemy(timers, tick_rate, enemy_id, t) ==
    IF enemy_id \notin DOMAIN timers THEN <<TRUE, Put(timers, enemy_id, t)>>
    ELSE IF (t - timers[enemy_id]) * 100 >= tick_rate
      THEN <<TRUE, Put(timers, enemy_id, t)>>
    ELSE <<FALSE, timers>>

RECURSIVE GarlicLoop(_, _, _, _)
\* the loop of GarlicWeapon.update over the enemies in range (cell 0):
\* [timers, enemies still alive, dead_enemies]
GarlicLoop(wp, timers, enemies, t) ==
    IF enemies = <<>> THEN [timers |-> timers, enemies |-> <<>>, dead_enemies |-> <<>>]
    ELSE LET enemy == Head(enemies)
             can == IF enemy.cell = 0
                      THEN CanDamageEnemy(timers, wp.cooldown, enemy.id, t)
                      ELSE <<FALSE, timers>>
             hurt == IF can[1] THEN TakeDamage(enemy, wp.damage) ELSE <<FALSE, enemy>>
             rest == GarlicLoop(wp, can[2], Tail(enemies), t)
         IN [timers |-> rest.timers,
             enemies |-> (IF hurt[1] THEN <<>> ELSE <<hurt[2]>>) \o rest.enemies,
             dead_enemies |-> (IF hurt[1] THEN <<GetDropInfo(enemy)>> ELSE <<>>)
                                \o rest.dead_enemies]

\* GarlicWeapon.update at wall clock t
GarlicUpdate(wp, timers, enemies, t) ==
    GarlicLoop(wp, PruneTimers(timers, wp.cooldown, t), enemies, t)

RECURSIVE HitLoop(_, _)
\* the inner loop of handle_projectile_collisions for one effect p over
\* list(self.enemy_group): [p, enemies still alive, damage_dealt, kills,
\* dead_enemies].  The loop goes on after p.kill()
HitLoop(p, enemies) ==
    IF enemies = <<>>
      THEN [p |-> p, enemies |-> <<>>, damage_dealt |-> 0, kills |-> 0,
            dead_enemies |-> <<>>]
    ELSE LET enemy == Head(enemies)
             hit == IF p.cell = enemy.cell THEN HitEnemy(p, enemy.id) ELSE <<FALSE, p>>
             hurt == IF hit[1] THEN TakeDamage(enemy, p.damage) ELSE <<FALSE, enemy>>
             rest == HitLoop(hit[2], Tail(enemies))
         IN [p |-> rest.p,
             enemies |-> (IF hurt[1] THEN <<>> ELSE <<hurt[2]>>) \o rest.enemies,
             damage_dealt |-> (IF hit[1] THEN p.damage ELSE 0) + rest.damage_dealt,
             kills |-> (IF hurt[1] THEN 1 ELSE 0) + rest.kills,
             dead_enemies |-> (IF hurt[1] THEN <<GetDropInfo(enemy)>> ELSE <<>>)
                                \o rest.dead_enemies]

RECURSIVE HandleProjectileCollisions(_, _)
RECURSIVE NextProjectile(_, _)
\* WeaponController.handle_projectile_collisions: [projectiles (each with its
\* alive flag), enemies still alive, damage_dealt, kills, dead_enemies]
HandleProjectileCollisions(projectiles, enemies) ==
    IF projectiles = <<>>
      THEN [projectiles |-> <<>>, enemies |-> enemies, damage_dealt |-> 0,
            kills |-> 0, dead_enemies |-> <<>>]
    ELSE NextProjectile(HitLoop(Head(projectiles), enemies), Tail(projectiles))

\* the outer loop of handle_projectile_collisions after the first effect; one
\* is what its inner loop did
NextProjectile(one, projectiles) ==
    LET rest == HandleProjectileCollisions(projectiles, one.enemies)
    IN [projectiles |-> <<one.p>> \o rest.projectiles,
        enemies |-> rest.enemies,
        damage_dealt |-> one.damage_dealt + rest.damage_dealt,
        kills |-> one.kills + rest.kills,
        dead_enemies |-> one.dead_enemies \o rest.dead_enemies]

-----------------------------------------------------------------------------
(* entities/drops.py *)

DROP_SETTINGS == [health_pickup |-> [value |-> 20]]

\* where a drop is, seen from the player: "out" = farther than pickup_radius,
\* "pull" = within pickup_radius, "take" = close enough to be collected
Ranges == {"out", "pull", "take"}

\* ExperienceGem.__init__ via DropManager.spawn_xp_gem; src is the enemy that
\* dropped it (observation only)
NewGem(drop_info) ==
    [kind |-> "xp", value |-> drop_info.xp_value, pos |-> drop_info.pos,
     is_magnetized |-> FALSE, collected |-> FALSE, src |-> drop_info.id]

\* Drop.update with Drop.magnetize for every kind of drop
DropUpdateMagnetized(drop, range) ==
    LET is_magnetized == drop.is_magnetized \/ range # "out"
    IN [drop EXCEPT !.is_magnetized = is_magnetized,
                    !.collected = is_magnetized /\ range = "take"]

\* Drop.update with Drop.magnetize, and Chest.update with Chest.magnetize
DropUpdate(drop, range) ==
    IF drop.kind = "chest"
      THEN [drop EXCEPT !.collected = (range = "take")]
    ELSE LET is_magnetized == drop.is_magnetized \/ range # "out"
         IN [drop EXCEPT !.is_magnetized = is_magnetized,
                         !.collected = is_magnetized /\ range = "take"]

\* Chest.__init__ via DropManager.spawn_chest; src tells the chests apart
\* (observation only)
NewChest(pos, src) ==
    [kind |-> "chest", value |-> 0, pos |-> pos, is_magnetized |-> FALSE,
     collected |-> FALSE, src |-> src]

\* the drops that one DropManager.update collects, each with the range it was
\* in (observation only)
Taken(drops, ranges) ==
    {[kind |-> drops[i].kind, src |-> drops[i].src, range |-> ranges[i]] :
       i \in {j \in 1..Len(drops) : DropUpdate(drops[j], ranges[j]).collected}}

\* the sum of the values of the collected drops of one kind
RECURSIVE Collected(_, _)
Collected(drops, kind) ==
    IF drops = <<>> THEN 0
    ELSE (IF Head(drops).collected /\ Head(drops).kind = kind
            THEN (IF kind = "chest" THEN 1 ELSE Head(drops).value) ELSE 0)
         + Collected(Tail(drops), kind)

\* DropManager.update: [drops left, xp, health, chests (their number)]
DropManagerUpdate(drops, ranges) ==
    LET updated == [i \in 1..Len(drops) |-> DropUpdate(drops[i], ranges[i])]
    IN [drops |-> SelectSeq(updated, LAMBDA drop : ~drop.collected),
        xp |-> Collected(updated, "xp"),
        health |-> Collected(updated, "health"),
        chests |-> Collected(updated, "chest")]

-----------------------------------------------------------------------------
(* main.py: the stages of Game.update *)

RECURSIVE WeaponsUpdate(_, _, _, _, _, _)
\* WeaponController.update over the weapons ids (a sequence) at wall clock t:
\* [weapons, created (the new effects), timers, enemies, dead_enemies,
\* attacks (the weapons whose attack() was invoked)]
WeaponsUpdate(ids, ws, timers, enemies, t, slash_cell) ==
    IF ids = <<>>
      THEN [weapons |-> ws, created |-> <<>>, timers |-> timers, enemies |-> enemies,
            dead_enemies |-> <<>>, attacks |-> {}]
    ELSE LET w == Head(ids)
         IN IF w = "garlic"
              THEN LET g == GarlicUpdate(ws[w], timers, enemies, t)
                       rest == WeaponsUpdate(Tail(ids), ws, g.timers, g.enemies, t, slash_cell)
                   IN [rest EXCEPT !.dead_enemies = g.dead_enemies \o @]
              ELSE LET r == WeaponUpdate(ws[w], t, slash_cell)
                       rest == WeaponsUpdate(Tail(ids), Put(ws, w, r[2]), timers, enemies,
                                             t, slash_cell)
                   IN [rest EXCEPT !.created = r[3] \o @,
                                   !.attacks = IF r[1] THEN @ \cup {w} ELSE @]

RECURSIVE PlayerEnemyCollision(_, _, _)
\* Game._handle_player_enemy_collision: [player, enemies, died (get_hit
\* returned True), contacts].  contacts lists the enemies whose contact reduced
\* the player's hp, with the two gates as they were (observation only)
PlayerEnemyCollision(pl, enemies, unlimited) ==
    IF enemies = <<>>
      THEN [player |-> pl, enemies |-> <<>>, died |-> FALSE, contacts |-> <<>>]
    ELSE LET enemy == Head(enemies)
         IN IF enemy.cell = 0 /\ CanDamage(enemy) /\ ~pl.is_invincible
              THEN LET r == GetHit(pl, enemy.damage, unlimited)
                       contact == IF r[2].hp < pl.hp
                                    THEN <<[id |-> enemy.id,
                                            damage_cooldown |-> enemy.damage_cooldown,
                                            is_invincible |-> pl.is_invincible]>>
                                    ELSE <<>>
                   IN IF r[1]
                        THEN [player |-> r[2], enemies |-> enemies, died |-> TRUE,
                              contacts |-> contact]
                        ELSE LET rest == PlayerEnemyCollision(r[2], Tail(enemies), unlimited)
                             IN [rest EXCEPT
                                   !.enemies = <<ResetDamageCooldown(enemy)>> \o @,
                                   !.contacts = contact \o @]
              ELSE LET rest == PlayerEnemyCollision(pl, Tail(enemies), unlimited)
                   IN [rest EXCEPT !.enemies = <<enemy>> \o @]

-----------------------------------------------------------------------------
(* main.py: Game *)

\* the wall clock time, in ms, that clock.tick(FPS) can take
FrameMs == {100}

\* Game.run: self.dt = min(clock.tick(FPS) / 1000.0, 0.1), in ms
CappedDt(ms) == Min(ms, 100)

\* the early returns of Game.update are not taken
Running ==
    /\ ~in_main_menu
    /\ ~(paused \/ level_up_active \/ game_over)
    /\ game_started

\* the alive sprites of a group, in order
Alive(sprites) == SelectSeq(sprites, LAMBDA s : s.alive)

\* the sprites of a group that were killed, in order
Killed(sprites) == SelectSeq(sprites, LAMBDA s : ~s.alive)

\* self.drop_manager.spawn_xp_gem for every drop_info of dead_enemies
SpawnGems(dead_enemies) == [i \in 1..Len(dead_enemies) |-> NewGem(dead_enemies[i])]

\* int(collected['xp'] * exp_multiplier); exp_multiplier in quarters
ModifiedXp(xp, exp_multiplier) == (xp * exp_multiplier) \div 4

\* Game._handle_player_death: the stats record shown by the death screen
HandlePlayerDeath(gt, pl) ==
    [time |-> gt, level |-> pl.level, kills |-> pl.kills, damage_dealt |-> pl.damage_dealt]

\* the values of set S when the tick uses the input, one value otherwise
Input(used, S, unused) == IF used THEN S ELSE {unused}

\* what the observation records of one call of Game.update
Observed(pl0, moved, final, contacts, gems, retired, attacks, rolled, gap, aura, stats, taken) ==
    [op |-> "update", hp_start |-> pl0.hp, xp_start |-> pl0.xp,
     level_start |-> pl0.level, xp_to_next_start |-> pl0.xp_to_next_level,
     damage_dealt_start |-> pl0.damage_dealt,
     taken |-> taken, contacts |-> contacts,
     died |-> {[id |-> moved[i].id, xp_value |-> moved[i].xp_value, pos |-> moved[i].cell] :
                 i \in {j \in 1..Len(moved) :
                          \A k \in 1..Len(final) : final[k].id # moved[j].id}},
     gems |-> gems, retired |-> retired, attacks |-> attacks, rolled |-> rolled,
     hit_gap |-> gap, aura |-> aura, stats |-> stats]

\* the damage of one application of the aura
AuraDamage(ws) == IF "garlic" \in DOMAIN ws THEN ws["garlic"].damage ELSE 0

\* the history after one call of Game.update at wall clock t and game time gt
Remembered(h, attacks, contacts, gems, t, gt, aura, counts) ==
    [attack_at |-> [w \in (DOMAIN h.attack_at) \cup {a.weapon_id : a \in attacks} |->
                      IF \E a \in attacks : a.weapon_id = w THEN t ELSE h.attack_at[w]],
     hit_at |-> IF contacts # <<>> THEN gt ELSE h.hit_at,
     paid |-> h.paid \cup {gems[i].src : i \in 1..Len(gems)},
     payouts |-> h.payouts + Len(gems),
     aura_at |-> [k \in (DOMAIN h.aura_at) \cup {a.id : a \in aura} |->
                    IF \E a \in aura : a.id = k THEN t ELSE h.aura_at[k]],
     triggers |-> h.triggers + counts.triggers,
     choices |-> h.choices,
     deaths |-> h.deaths + counts.deaths,
     damage_applied |-> h.damage_applied + counts.damage_applied]

\* the observation of the attacks of one tick: for every weapon that attacked,
\* the wall clock time since its previous attack (-1: it had not attacked)
AttackGaps(h, attacked, t) ==
    {[weapon_id |-> w,
      gap |-> IF w \in DOMAIN h.attack_at THEN t - h.attack_at[w] ELSE -1] : w \in attacked}

\* the observation of the aura's damage of one tick at wall clock t: for every
\* enemy the aura damaged (its timer was set to t), the wall clock time since
\* the aura damaged it before (-1: it had not) and the tick rate in force
AuraGaps(h, timers, ws, t) ==
    {[id |-> k,
      gap |-> IF k \in DOMAIN h.aura_at THEN t - h.aura_at[k] ELSE -1,
      tick_rate |-> ws["garlic"].cooldown] : k \in {x \in DOMAIN timers : timers[x] = t}}

\* EnemySpawner.update with d enters its while loop
SpawnDue(sp, d) ==
    sp.spawn_timer + d * 100
      >= SpawnInterval([sp EXCEPT !.game_time = @ + d])

\* where _get_spawn_position puts an enemy while the player is farther than
\* the spawn radius from the edges of the world (the sessions explored):
\* outside the camera, away from the player
SpawnCells == {1}

\* EnemySpawner.update with d can spawn a boss
BossDue(sp, d) == sp.game_time + d >= SPAWNER_SETTINGS.boss_spawn_interval

\* WhipWeapon.update at wall clock t attacks
Slashing(ws, t) == "whip" \in DOMAIN ws /\ TimerReady(ws["whip"].cooldown_timer, t)

\* where the enemies of a group can move in one frame: an enemy that has
\* reached the player stays with it
Approaches(enemies) ==
    {f \in [1..Len(enemies) -> Cells] :
       \A i \in 1..Len(enemies) : enemies[i].cell = 0 => f[i] = 0}

\* where the effects of a group can move in one frame: a WhipSlash stays, a
\* projectile that has left the player flies on
Flights(projectiles) ==
    {f \in [1..Len(projectiles) -> Cells] :
       \A i \in 1..Len(projectiles) :
          (projectiles[i].kind = "whip" \/ projectiles[i].cell = 1)
            => f[i] = projectiles[i].cell}

\* where the drops of a group can be in one frame: a magnetized drop has been
\* within pickup_radius and flies to the player
Distances(drops) ==
    {f \in [1..Len(drops) -> Ranges] :
       \A i \in 1..Len(drops) : drops[i].is_magnetized => f[i] # "out"}

\* CHEAT_SETTINGS; exp_multiplier in quarters
CHEAT_SETTINGS == [unlimited_health |-> FALSE, starting_weapon |-> "whip",
                   starting_weapon_level |-> 1, starting_passives |-> <<>>,
                   exp_multiplier |-> 4]

RECURSIVE LevelUpTimes(_, _, _)
\* for _ in range(n): weapon.level_up().  A level_up that returns False has
\* changed nothing, and neither do the calls after it
LevelUpTimes(wp, pl, n) ==
    IF n <= 0 THEN wp
    ELSE LET r == LevelUp(wp, pl)
         IN IF r[1] THEN LevelUpTimes(r[2], pl, n - 1) ELSE wp

RECURSIVE AddPassiveTimes(_, _, _)
\* for _ in range(n): self.weapon_controller.add_passive(passive_id).  An
\* add_passive that returns False has changed nothing, and neither do the
\* calls after it
AddPassiveTimes(inv, passive_id, n) ==
    IF n <= 0 THEN inv
    ELSE LET r == AddPassive(inv, passive_id)
         IN IF r[1] THEN AddPassiveTimes(r[2], passive_id, n - 1) ELSE inv

RECURSIVE AddStartingPassives(_, _, _)
\* the loop of _init_entities over starting_passives (a sequence of ids)
AddStartingPassives(inv, ids, starting_passives) ==
    IF ids = <<>> THEN inv
    ELSE AddStartingPassives(AddPassiveTimes(inv, Head(ids), starting_passives[Head(ids)]),
                             Tail(ids), starting_passives)

\* _init_entities: the starting weapon is levelled up to starting_level
StartingLevel(inv, weapon_id, starting_level) ==
    IF starting_level > 1 /\ weapon_id \in DOMAIN inv.weapons
      THEN [inv EXCEPT !.weapons[weapon_id] = LevelUpTimes(@, inv.player, starting_level - 1)]
      ELSE inv

\* a variant of _init_entities that gives the starting weapon only
InitEntitiesBare(c) == AddWeapon(Inventory(<<>>, <<>>, NewPlayer), c.starting_weapon)[2]

\* Game._init_entities: the inventory of a new session with cheat settings c
InitEntities(c) ==
    AddStartingPassives(
      StartingLevel(AddWeapon(Inventory(<<>>, <<>>, NewPlayer), c.starting_weapon)[2],
                    c.starting_weapon, c.starting_weapon_level),
      SelectIds(PassiveOrder, DOMAIN c.starting_passives), c.starting_passives)

\* nothing observed
NoEvent(op) == [op |-> op]

\* the history of a new session
NoHistory == [attack_at |-> <<>>, hit_at |-> -1, paid |-> {}, payouts |-> 0,
              aura_at |-> <<>>, triggers |-> 0, choices |-> 0, deaths |-> 0,
              damage_applied |-> 0]

-----------------------------------------------------------------------------
(* main.py: the actions of the game loop *)

\* one frame of Game.run in which Game.update runs the simulation.  The
\* inputs of the frame: ms (the wall clock time of the frame), enemy_type and
\* spawn_cell (the spawner's random choices), slash_cell, cells (where each
\* enemy moves), pcells (where each effect moves), ranges (where each drop is)
\* and shown (the options the level up menu shows)
Tick ==
    /\ Running
    /\ steps < MaxSteps
    /\ \E ms \in FrameMs :
       \E pl1 \in {PlayerUpdate(player, CappedDt(ms))} :
         /\ now' = now + ms
         /\ dt' = CappedDt(ms)
         /\ game_time' = game_time + CappedDt(ms)
         /\ steps' = steps + 1
         /\ UNCHANGED <<in_main_menu, game_started, paused, cheat, passives>>
         /\ IF pl1.dead
              THEN /\ game_over' = TRUE
                   /\ player' = pl1
                   /\ ev' = NoEvent("update_dead")
                   /\ UNCHANGED <<level_up_active, weapons, spawner, enemy_group,
                                  projectile_group, aura_timers, drop_group, options, hist>>
              ELSE \E enemy_type \in Input(SpawnDue(spawner, CappedDt(ms)), SpawnTypes, "chaser"),
                      spawn_cell \in Input(SpawnDue(spawner, CappedDt(ms))
                                           \/ BossDue(spawner, CappedDt(ms)), SpawnCells, 1),
                      slash_cell \in Input(Slashing(weapons, now + ms), Cells, 0) :
                   \E spawn \in {SpawnerUpdate(spawner, CappedDt(ms), enemy_type, spawn_cell)} :
                     /\ Len(enemy_group) + Len(spawn[2]) <= MaxEnemies
                     /\ \E cells \in Approaches(enemy_group \o spawn[2]) :
                        \E chased \in {[i \in DOMAIN cells |->
                                          EnemyUpdate((enemy_group \o spawn[2])[i],
                                                      CappedDt(ms), cells[i])]} :
                        \E wu \in {WeaponsUpdate(SelectIds(WeaponOrder, DOMAIN weapons),
                                                 weapons, aura_timers, chased, now + ms,
                                                 slash_cell)} :
                        \E pcells \in Flights(projectile_group \o wu.created) :
                        \E aged \in {[i \in DOMAIN pcells |->
                                        ProjectileUpdate((projectile_group \o wu.created)[i],
                                                         CappedDt(ms), pcells[i])]} :
                        \E hc \in {HandleProjectileCollisions(Alive(aged), wu.enemies)} :
                        \E new_gems \in {SpawnGems(hc.dead_enemies \o wu.dead_enemies)} :
                        \E ranges \in Distances(drop_group \o new_gems) :
                        \E dm \in {DropManagerUpdate(drop_group \o new_gems, ranges)} :
                        \E gained \in {IF dm.xp > 0
                                         THEN GainXp([pl1 EXCEPT
                                                        !.damage_dealt = @ + hc.damage_dealt,
                                                        !.kills = @ + hc.kills],
                                                     ModifiedXp(dm.xp, cheat.exp_multiplier))
                                         ELSE <<FALSE, [pl1 EXCEPT
                                                          !.damage_dealt = @ + hc.damage_dealt,
                                                          !.kills = @ + hc.kills]>>} :
                        \E pl3 \in {IF dm.health > 0 THEN Heal(gained[2], dm.health * 10)
                                                     ELSE gained[2]} :
                        \E col \in {PlayerEnemyCollision(pl3, hc.enemies,
                                                         cheat.unlimited_health)} :
                        \E attacked \in {AttackGaps(hist, wu.attacks, now + ms)} :
                        \E aura \in {AuraGaps(hist, wu.timers, wu.weapons, now + ms)} :
                        \E shown \in Input(gained[1] \/ dm.chests > 0,
                                           GetUpgradeOptions(
                                             Inventory(wu.weapons, passives, pl3), 3),
                                           options) :
                          /\ player' = col.player
                          /\ game_over' = (game_over \/ col.died)
                          /\ level_up_active' = (level_up_active \/ gained[1] \/ dm.chests > 0)
                          /\ options' = shown
                          /\ weapons' = wu.weapons
                          /\ spawner' = spawn[1]
                          /\ enemy_group' = col.enemies
                          /\ projectile_group' = Alive(hc.projectiles)
                          /\ aura_timers' = wu.timers
                          /\ drop_group' = dm.drops
                          /\ hist' = Remembered(hist, attacked, col.contacts, new_gems,
                                                now + ms, game_time + CappedDt(ms), aura,
                                                [triggers |-> (IF gained[1] THEN 1 ELSE 0)
                                                                + dm.chests,
                                                 deaths |-> Len(new_gems),
                                                 damage_applied |->
                                                    hc.damage_dealt
                                                    + Cardinality(aura) * AuraDamage(wu.weapons)])
                          /\ ev' = Observed(player, chased, col.enemies, col.contacts,
                                            new_gems,
                                            Killed(aged) \o Killed(hc.projectiles),
                                            attacked, <<>>,
                                            IF col.contacts # <<>> /\ hist.hit_at # -1
                                              THEN game_time + CappedDt(ms) - hist.hit_at
                                              ELSE -1,
                                            aura,
                                            IF col.died
                                              THEN HandlePlayerDeath(game_time + CappedDt(ms),
                                                                     col.player)
                                              ELSE <<>>,
                                            Taken(drop_group \o new_gems, ranges))

\* one frame of Game.run in which Game.update returns early
IdleFrame ==
    /\ ~Running
    /\ steps < MaxSteps
    /\ \E ms \in FrameMs :
         /\ now' = now + ms
         /\ dt' = CappedDt(ms)
    /\ steps' = steps + 1
    /\ ev' = NoEvent("update_skipped")
    /\ UNCHANGED <<in_main_menu, game_started, paused, level_up_active, game_over,
                   game_time, cheat, player, weapons, passives, spawner, enemy_group,
                   projectile_group, aura_timers, drop_group, options, hist>>

\* Game.handle_events, level up menu: the player selects card i and the
\* upgrade is applied
SelectOption ==
    /\ ~in_main_menu /\ ~game_over /\ level_up_active
    /\ steps < MaxSteps
    /\ \E i \in 1..Len(options) :
       \E r \in {ApplyUpgrade(Inventory(weapons, passives, player),
                              options[i].type, options[i].id)} :
            /\ weapons' = r[2].weapons
            /\ passives' = r[2].passives
            /\ player' = r[2].player
            /\ ev' = [op |-> "apply_upgrade", type |-> options[i].type,
                      id |-> options[i].id, ok |-> r[1]]
    /\ level_up_active' = FALSE
    /\ options' = <<>>
    /\ steps' = steps + 1
    /\ hist' = [hist EXCEPT !.choices = @ + 1]
    /\ UNCHANGED <<now, dt, in_main_menu, game_started, paused, game_over, game_time,
                   cheat, spawner, enemy_group, projectile_group, aura_timers,
                   drop_group>>

\* Game.handle_events, normal gameplay input: Escape pauses
PauseKey ==
    /\ ~in_main_menu /\ ~game_over /\ ~level_up_active /\ ~paused
    /\ steps < MaxSteps
    /\ paused' = TRUE
    /\ steps' = steps + 1
    /\ ev' = NoEvent("pause")
    /\ UNCHANGED <<now, dt, in_main_menu, game_started, level_up_active, game_over,
                   game_time, cheat, player, weapons, passives, spawner, enemy_group,
                   projectile_group, aura_timers, drop_group, options, hist>>

\* Game.handle_events, pause menu: resume
Resume ==
    /\ ~in_main_menu /\ ~game_over /\ ~level_up_active /\ paused
    /\ steps < MaxSteps
    /\ paused' = FALSE
    /\ steps' = steps + 1
    /\ ev' = NoEvent("resume")
    /\ UNCHANGED <<now, dt, in_main_menu, game_started, level_up_active, game_over,
                   game_time, cheat, player, weapons, passives, spawner, enemy_group,
                   projectile_group, aura_timers, drop_group, options, hist>>

\* the death screen or the pause menu is taking the input
MenuOpen == ~in_main_menu /\ (game_over \/ (~level_up_active /\ paused))

\* _init_groups, _init_entities and _init_systems
InitSession ==
    \E fresh \in {InitEntities(cheat)} :
       /\ player' = fresh.player
       /\ weapons' = fresh.weapons
       /\ passives' = fresh.passives
       /\ spawner' = NewSpawner
       /\ enemy_group' = <<>>
       /\ projectile_group' = <<>>
       /\ aura_timers' = <<>>
       /\ drop_group' = <<>>
       /\ hist' = NoHistory

\* Game.reset, from the death screen or the pause menu
Restart ==
    /\ MenuOpen
    /\ steps < MaxSteps
    /\ paused' = FALSE
    /\ game_over' = FALSE
    /\ level_up_active' = FALSE
    /\ game_time' = 0
    /\ InitSession
    /\ options' = <<>>
    /\ steps' = steps + 1
    /\ ev' = NoEvent("reset")
    /\ UNCHANGED <<now, dt, in_main_menu, game_started, cheat>>

\* Game.return_to_main_menu, from the death screen or the pause menu
ReturnToMainMenu ==
    /\ MenuOpen
    /\ steps < MaxSteps
    /\ in_main_menu' = TRUE
    /\ game_started' = FALSE
    /\ game_over' = FALSE
    /\ paused' = FALSE
    /\ level_up_active' = FALSE
    /\ steps' = steps + 1
    /\ ev' = NoEvent("return_to_main_menu")
    /\ UNCHANGED <<now, dt, game_time, cheat, player, weapons, passives, spawner,
                   enemy_group, projectile_group, aura_timers, drop_group, options, hist>>

\* Game.handle_events, main menu: start runs _init_game
StartGame ==
    /\ in_main_menu
    /\ steps < MaxSteps
    /\ in_main_menu' = FALSE
    /\ game_started' = TRUE
    /\ InitSession
    /\ options' = <<>>
    /\ steps' = steps + 1
    /\ ev' = NoEvent("start")
    /\ UNCHANGED <<now, dt, paused, level_up_active, game_over, game_time, cheat>>

Next ==
    \/ Tick
    \/ IdleFrame
    \/ SelectOption
    \/ PauseKey
    \/ Resume
    \/ Restart
    \/ ReturnToMainMenu
    \/ StartGame

-----------------------------------------------------------------------------
(* Initial states: sessions in progress.  A level-up needs 50 XP and a death *)
(* 100 HP of contact damage, minutes of play, so the exploration starts from *)
(* states a session reaches in its first seconds, built with the program's   *)
(* own constructors and operations: one enemy per second has been spawned by *)
(* frames of 100 ms, the first of them have been killed by the starting      *)
(* weapon and their gems collected, the others are alive and the first of    *)
(* these struck the player 300 ms ago; no effect is in flight.  New sessions *)
(* (Restart, StartGame) start from _init_game.                               *)

\* cheat settings with starting weapon w
Default(w) == [CHEAT_SETTINGS EXCEPT !.starting_weapon = w]

\* cheat settings of the cheats menu: weapon w at level 7, six passives, five
\* times the XP
Boosted(w) ==
    [unlimited_health |-> FALSE, starting_weapon |-> w, starting_weapon_level |-> 7,
     starting_passives |-> [p \in PassiveIds \ {"pickup_boost"} |->
                              IF p = "might_boost" THEN 4 ELSE 5],
     exp_multiplier |-> 20]

\* the spawner after n frames of 100 ms in which update spawned nothing
Waited(sp, n) == [sp EXCEPT !.game_time = @ + 100 * n, !.spawn_timer = @ + 10000 * n]

\* the number of frames of 100 ms until EnemySpawner.update spawns
FramesToSpawn(sp) ==
    CHOOSE k \in 1..10 :
      /\ Waited(sp, k).spawn_timer >= SpawnInterval(Waited(sp, k))
      /\ \A j \in 1..(k - 1) : Waited(sp, j).spawn_timer < SpawnInterval(Waited(sp, j))

RECURSIVE QuietSpawner(_, _)
\* the spawner after n calls of EnemySpawner.update with 100 ms
QuietSpawner(sp, n) ==
    LET k == FramesToSpawn(sp)
    IN IF k > n THEN Waited(sp, n)
       ELSE QuietSpawner(SpawnerUpdate(Waited(sp, k - 1), 100, "chaser", 1)[1], n - k)

RECURSIVE CollectedXp(_, _)
\* the XP of the gems of the killed enemy types, each collected in its own tick
CollectedXp(killed, exp_multiplier) ==
    IF killed = <<>> THEN 0
    ELSE ModifiedXp(ENEMY_DATA[Head(killed)].xp_value, exp_multiplier)
         + CollectedXp(Tail(killed), exp_multiplier)

RECURSIVE DamageToKill(_, _)
\* the damage dealt by hits of `damage` that killed enemies of the given types
DamageToKill(killed, damage) ==
    IF killed = <<>> THEN 0
    ELSE ((ENEMY_DATA[Head(killed)].hp * 100 + damage - 1) \div damage) * damage
         + DamageToKill(Tail(killed), damage)

RECURSIVE HitDamage(_, _)
\* the damage dealt by the hits of `damage` that the alive enemies have taken
HitDamage(alive, damage) ==
    IF alive = <<>> THEN 0
    ELSE Head(alive).hits * damage + HitDamage(Tail(alive), damage)

\* the wall clock of the last attack before time t of a weapon that has fired
\* whenever it was ready since the first frame
LastAttack(wp, t) ==
    LET period == ((wp.cooldown + 9999) \div 10000) * 100
    IN 100 + period * ((t - 100) \div period)

\* the player 300 ms (three frames) after an enemy struck with `damage`
Struck(pl, damage) ==
    PlayerUpdate(PlayerUpdate(PlayerUpdate(GetHit(pl, damage, FALSE)[2], 100), 100), 100)

\* the enemy 300 ms (three frames) after it struck the player, where it is
Striker(enemy) ==
    EnemyUpdate(EnemyUpdate(EnemyUpdate(ResetDamageCooldown(enemy), 100, enemy.cell),
                            100, enemy.cell),
                100, enemy.cell)

\* the aura's per-enemy timers at wall clock t: the aura damaged the enemy at
\* the player 300 ms ago, and 900 ms ago an enemy that has left its range
AuraHistory(killed, alive, garlic, t) ==
    [i \in {Len(killed) + k : k \in {k \in 1..Len(alive) : alive[k].hits > 0 /\ garlic}}
       |-> IF alive[i - Len(killed)].cell = 0 THEN t - 300 ELSE t - 900]

\* a session in progress, `fresh` being what _init_entities made: the enemies
\* of types `killed` are dead, those of `alive` (records [enemy_type, cell,
\* hits]) are alive and have been hit `hits` times by the starting weapon; the
\* player had lost damage_taken HP before the first of them struck, and a
\* player who regenerates had then been below max_hp for 600 ms
InProgress(c, fresh, killed, alive, damage_taken) ==
    LET clock == 1000 * (Len(killed) + Len(alive) + 1) - 100
        garlic == c.starting_weapon = "garlic"
        fired == fresh.weapons[c.starting_weapon]
        spawned == [i \in 1..Len(alive) |->
                      [NewEnemy(Len(killed) + i, alive[i].enemy_type, alive[i].cell,
                                DifficultyMultiplier(Waited(NewSpawner,
                                                            10 * (Len(killed) + i))))
                         EXCEPT !.hp = @ - alive[i].hits * fired.damage]]
    IN /\ now = clock
       /\ dt = 100
       /\ in_main_menu = FALSE
       /\ game_started = TRUE
       /\ paused = FALSE
       /\ level_up_active = FALSE
       /\ game_over = FALSE
       /\ game_time = clock
       /\ cheat = c
       /\ player = Struck([fresh.player EXCEPT
                             !.hp = @ - damage_taken * 10,
                             !.xp = CollectedXp(killed, c.exp_multiplier),
                             !.kills = IF garlic THEN 0 ELSE Len(killed),
                             !.damage_dealt =
                                IF garlic THEN 0
                                ELSE DamageToKill(killed, fired.damage)
                                     + HitDamage(alive, fired.damage),
                             !.damage_taken = damage_taken,
                             !.regen_timer =
                                IF fresh.player.regen > 0 /\ damage_taken > 0
                                  THEN 600 ELSE 0],
                          spawned[1].damage)
       /\ weapons = [x \in DOMAIN fresh.weapons |->
                       IF garlic THEN fresh.weapons[x]
                       ELSE [fresh.weapons[x] EXCEPT
                               !.cooldown_timer.last_time = LastAttack(fired, clock) * 100]]
       /\ passives = fresh.passives
       /\ spawner = QuietSpawner(NewSpawner, clock \div 100)
       /\ enemy_group = [i \in 1..Len(alive) |->
                           IF i = 1 THEN Striker(spawned[i]) ELSE spawned[i]]
       /\ projectile_group = <<>>
       /\ aura_timers = AuraHistory(killed, alive, garlic, clock)
       /\ drop_group = <<>>
       /\ options = <<>>
       /\ steps = 0
       /\ hist = [attack_at |-> IF garlic THEN <<>>
                                ELSE [x \in {c.starting_weapon} |-> LastAttack(fired, clock)],
                  hit_at |-> clock - 300,
                  paid |-> 1..Len(killed),
                  payouts |-> Len(killed),
                  aura_at |-> AuraHistory(killed, alive, garlic, clock),
                  triggers |-> 0,
                  choices |-> 0,
                  deaths |-> Len(killed),
                  damage_applied |-> DamageToKill(killed, fired.damage)
                                     + HitDamage(alive, fired.damage)]
       /\ ev = NoEvent("init")

\* the explored sessions: one per starting weapon; one in which a tank had
\* struck the player four times; two started from the cheats menu, in the
\* second of which the player regenerates; one with five times the XP in
\* which the player is close to the next level and to death
Sessions ==
    {[cheat |-> Default("whip"), killed |-> <<"chaser", "chaser">>,
      alive |-> <<[enemy_type |-> "chaser", cell |-> 0, hits |-> 0],
                  [enemy_type |-> "bat", cell |-> 1, hits |-> 0]>>,
      damage_taken |-> 0],
     [cheat |-> Default("wand"), killed |-> <<"chaser", "chaser">>,
      alive |-> <<[enemy_type |-> "tank", cell |-> 0, hits |-> 2],
                  [enemy_type |-> "bat", cell |-> 1, hits |-> 0]>>,
      damage_taken |-> 0],
     [cheat |-> Default("garlic"), killed |-> <<"chaser", "chaser">>,
      alive |-> <<[enemy_type |-> "chaser", cell |-> 0, hits |-> 1],
                  [enemy_type |-> "bat", cell |-> 1, hits |-> 1]>>,
      damage_taken |-> 0],
     [cheat |-> Default("whip"), killed |-> <<"tank", "chaser", "chaser">>,
      alive |-> <<[enemy_type |-> "chaser", cell |-> 0, hits |-> 0],
                  [enemy_type |-> "bat", cell |-> 1, hits |-> 0]>>,
      damage_taken |-> 80],
     [cheat |-> Boosted("whip"), killed |-> <<"tank", "ghost", "chaser">>,
      alive |-> <<[enemy_type |-> "chaser", cell |-> 0, hits |-> 0],
                  [enemy_type |-> "bat", cell |-> 1, hits |-> 0]>>,
      damage_taken |-> 0],
     [cheat |-> Boosted("whip"), killed |-> <<"chaser">>,
      alive |-> <<[enemy_type |-> "swarm", cell |-> 0, hits |-> 0]>>,
      damage_taken |-> 1],
     [cheat |-> [Default("whip") EXCEPT !.exp_multiplier = 20],
      killed |-> <<"tank", "ghost", "chaser">>,
      alive |-> <<[enemy_type |-> "tank", cell |-> 0, hits |-> 0],
                  [enemy_type |-> "bat", cell |-> 1, hits |-> 0]>>,
      damage_taken |-> 70]}

Init ==
    \E session \in Sessions :
    \E fresh \in {InitEntities(session.cheat)} :
       InProgress(session.cheat, fresh, session.killed, session.alive,
                  session.damage_taken)

Spec == Init /\ [][Next]_vars

-----------------------------------------------------------------------------
(* The inventory alone: WeaponController called directly, in any order.     *)
(* The calls start from the inventory of a new session and from late         *)
(* inventories, built with the program's own operations: the cheats menu     *)
(* gives the whip at a high level and six of the seven passives, the other   *)
(* weapons are added and levelled to the top, and every evolution that       *)
(* succeeds has been made.                                                   *)

RECURSIVE AddWeaponTimes(_, _, _)
\* for _ in range(n): add_weapon(weapon_id).  An add_weapon that returns False
\* has changed nothing, and neither do the calls after it
AddWeaponTimes(inv, weapon_id, n) ==
    IF n <= 0 THEN inv
    ELSE LET r == AddWeapon(inv, weapon_id)
         IN IF r[1] THEN AddWeaponTimes(r[2], weapon_id, n - 1) ELSE inv

RECURSIVE Stocked(_, _, _)
\* the weapons of sequence ids added and levelled n - 1 times
Stocked(inv, ids, n) ==
    IF ids = <<>> THEN inv
    ELSE Stocked(AddWeaponTimes(inv, Head(ids), n), Tail(ids), n)

RECURSIVE EvolveAll(_, _)
\* evolve_weapon for the weapons of sequence ids
EvolveAll(inv, ids) ==
    IF ids = <<>> THEN inv ELSE EvolveAll(EvolveWeapon(inv, Head(ids))[2], Tail(ids))

\* the cheats menu: the whip at starting_level and every passive but `missing`
\* at its top level
Collector(missing, starting_level) ==
    [unlimited_health |-> FALSE, starting_weapon |-> "whip",
     starting_weapon_level |-> starting_level,
     starting_passives |-> [p \in PassiveIds \ {missing} |-> PASSIVE_DATA[p].max_level],
     exp_multiplier |-> 4]

\* the cheats menu with everything switched on: the whip at level 8 and all
\* seven passives at their top level
Everything ==
    [unlimited_health |-> FALSE, starting_weapon |-> "whip", starting_weapon_level |-> 8,
     starting_passives |-> [p \in PassiveIds |-> PASSIVE_DATA[p].max_level],
     exp_multiplier |-> 4]

\* a late inventory before any evolution
Ready(missing, starting_level) ==
    Stocked(InitEntities(Collector(missing, starting_level)),
            <<"wand", "garlic", "axe", "knife">>, 8)

\* a late inventory after the evolutions
Late(missing, starting_level) ==
    EvolveAll(Ready(missing, starting_level),
              CheckEvolutions(Ready(missing, starting_level)))

\* the whip levelled to 8 and evolved in a session of the cheats menu, the
\* passive might_boost being at level 4 of 5
EvolvedEarly ==
    EvolveAll(AddWeaponTimes(InitEntities(Boosted("whip")), "whip", 1), <<"whip">>)

\* the inventories the calls start from
Inventories ==
    {InitEntities(Default(w)) : w \in {"whip", "axe"}}
    \cup {Ready("pickup_boost", 7), InitEntities(Everything), EvolvedEarly}
    \cup {Late(missing, starting_level) :
            missing \in {"max_hp_boost", "speed_boost", "might_boost", "pickup_boost"},
            starting_level \in {7, 8}}

\* the values of count in the calls of get_upgrade_options
Counts == {1, 3}

InvInit ==
    /\ now = 0
    /\ dt = 0
    /\ in_main_menu = FALSE
    /\ game_started = TRUE
    /\ paused = FALSE
    /\ level_up_active = FALSE
    /\ game_over = FALSE
    /\ game_time = 0
    /\ cheat = CHEAT_SETTINGS
    /\ \E inv \in Inventories :
         /\ player = inv.player
         /\ weapons = inv.weapons
         /\ passives = inv.passives
    /\ spawner = NewSpawner
    /\ enemy_group = <<>>
    /\ projectile_group = <<>>
    /\ aura_timers = <<>>
    /\ drop_group = <<>>
    /\ options = <<>>
    /\ steps = 0
    /\ hist = NoHistory
    /\ ev = NoEvent("init")

\* a call that returns <<ok, the inventory afterwards>>
Called(op, id, r) ==
    /\ steps < MaxUpgrades
    /\ weapons' = r[2].weapons
    /\ passives' = r[2].passives
    /\ player' = r[2].player
    /\ options' = <<>>
    /\ steps' = steps + 1
    /\ ev' = [op |-> op, id |-> id, ok |-> r[1],
              could_evolve |-> CheckEvolutions(Inventory(weapons, passives, player))]
    /\ UNCHANGED <<now, dt, in_main_menu, game_started, paused, level_up_active,
                   game_over, game_time, cheat, spawner, enemy_group, projectile_group,
                   aura_timers, drop_group, hist>>

AddWeaponCall ==
    \E weapon_id \in WeaponIds :
       Called("add_weapon", weapon_id,
              AddWeapon(Inventory(weapons, passives, player), weapon_id))

AddPassiveCall ==
    \E passive_id \in PassiveIds :
       Called("add_passive", passive_id,
              AddPassive(Inventory(weapons, passives, player), passive_id))

EvolveWeaponCall ==
    \E weapon_id \in WeaponIds :
       Called("evolve_weapon", weapon_id,
              EvolveWeapon(Inventory(weapons, passives, player), weapon_id))

\* apply_upgrade with one of the cards the level up menu can show
ApplyUpgradeCall ==
    \E i \in DOMAIN Possible(Inventory(weapons, passives, player)) :
       Called("apply_upgrade", Possible(Inventory(weapons, passives, player))[i].id,
              ApplyUpgrade(Inventory(weapons, passives, player),
                           Possible(Inventory(weapons, passives, player))[i].type,
                           Possible(Inventory(weapons, passives, player))[i].id))

GetUpgradeOptionsCall ==
    /\ steps < MaxUpgrades
    /\ \E count \in Counts :
         /\ \E returned \in GetUpgradeOptions(Inventory(weapons, passives, player), count) :
              options' = returned
         /\ ev' = [op |-> "get_upgrade_options", count |-> count]
    /\ steps' = steps + 1
    /\ UNCHANGED <<now, dt, in_main_menu, game_started, paused, level_up_active,
                   game_over, game_time, cheat, player, weapons, passives, spawner,
                   enemy_group, projectile_group, aura_timers, drop_group, hist>>

InvNext ==
    \/ AddWeaponCall
    \/ AddPassiveCall
    \/ EvolveWeaponCall
    \/ ApplyUpgradeCall
    \/ GetUpgradeOptionsCall

SpecInv == InvInit /\ [][InvNext]_vars

-----------------------------------------------------------------------------
(* Properties of the game loop (Spec) *)

\* an update of the simulation has just run
Updated == ev.op = "update"

\* the effects alive after the last update and those it removed
Effects == {projectile_group[i] : i \in DOMAIN projectile_group}

Retired == IF Updated THEN {ev.retired[i] : i \in DOMAIN ev.retired} ELSE {}

\* C1: an attack effect created with pierce P damages at most P distinct
\* enemies, its remaining-pierce counter never goes below zero, and it is
\* removed exactly when its P-th unique hit lands or its age reaches its
\* lifetime, also when it overlaps several enemies in one collision pass.
C1_PierceRespected ==
    /\ \A p \in Effects \cup Retired :
         /\ Cardinality(p.hit_enemies) <= p.pierce
         /\ p.hits_remaining >= 0
    /\ \A p \in Effects : Cardinality(p.hit_enemies) < p.pierce /\ p.age < p.lifetime
    /\ \A p \in Retired : Cardinality(p.hit_enemies) = p.pierce \/ p.age >= p.lifetime

\* C2 as stated: HP is reduced only by a contact whose two gates were open,
\* and whenever damage is applied the player is invincible for
\* i_frames_duration and that enemy's cooldown is reset to 0.5 s.
C2_GatesAndReset ==
    Updated =>
      /\ player.hp < ev.hp_start => ev.contacts # <<>>
      /\ \A i \in DOMAIN ev.contacts :
           /\ ev.contacts[i].damage_cooldown <= 0
           /\ ~ev.contacts[i].is_invincible
           /\ player.is_invincible
           /\ player.i_frames_timer = player.i_frames_duration
           /\ \E j \in DOMAIN enemy_group :
                /\ enemy_group[j].id = ev.contacts[i].id
                /\ enemy_group[j].damage_cooldown = 500

\* C2, amended: HP is reduced only by a contact whose two gates were open;
\* whenever damage is applied the player is invincible for i_frames_duration,
\* and that enemy's cooldown is reset to 0.5 s unless the hit killed the
\* player, in which case the enemy's cooldown is left as it was.
C2_GatesAndResetUnlessFatal ==
    Updated =>
      /\ player.hp < ev.hp_start => ev.contacts # <<>>
      /\ \A i \in DOMAIN ev.contacts :
           /\ ev.contacts[i].damage_cooldown <= 0
           /\ ~ev.contacts[i].is_invincible
           /\ player.is_invincible
           /\ player.i_frames_timer = player.i_frames_duration
           /\ \E j \in DOMAIN enemy_group :
                /\ enemy_group[j].id = ev.contacts[i].id
                /\ enemy_group[j].damage_cooldown =
                     IF player.dead THEN ev.contacts[i].damage_cooldown ELSE 500

\* a contact has damaged the player, who survived it
C2_Witness == Updated /\ ev.contacts # <<>> /\ player.hp < ev.hp_start /\ ~player.dead

\* C3: two damage applications to the player are separated by at least
\* i_frames_duration of simulated time, and the enemies overlapping the player
\* in one tick produce at most one.
C3_HitsSeparated ==
    Updated =>
      /\ Len(ev.contacts) <= 1
      /\ ev.hit_gap # -1 => ev.hit_gap >= PLAYER_SETTINGS.i_frames_duration

\* the player is damaged 0.5 s after the previous damage, while a second enemy
\* whose own cooldown has elapsed overlaps the player too
C3_Witness ==
    /\ Updated
    /\ Len(ev.contacts) = 1
    /\ ev.hit_gap = PLAYER_SETTINGS.i_frames_duration
    /\ \E j \in DOMAIN enemy_group :
         /\ enemy_group[j].id # ev.contacts[1].id
         /\ enemy_group[j].cell = 0
         /\ enemy_group[j].damage_cooldown <= 0

\* C5: two consecutive attack() invocations of a weapon are separated by at
\* least the weapon's current cooldown, also across level-ups of the weapon
\* and passive changes that recompute its stats.
C5_AttacksSeparated ==
    Updated =>
      \A a \in ev.attacks :
         a.gap # -1 => a.gap * 100 >= weapons[a.weapon_id].cooldown

\* C6: every enemy death yields exactly one XP gem at the enemy's last
\* position with the enemy's xp_value, whatever killed it, and no enemy pays
\* out twice.
C6_OneGemPerDeath ==
    /\ Cardinality(hist.paid) = hist.payouts
    /\ Updated =>
         /\ Len(ev.gems) = Cardinality(ev.died)
         /\ {[id |-> ev.gems[i].src, xp_value |-> ev.gems[i].value,
              pos |-> ev.gems[i].pos] : i \in DOMAIN ev.gems} = ev.died
         /\ \A i \in DOMAIN ev.gems : ev.gems[i].kind = "xp"

\* two enemies have died in one update
C6_Witness == Updated /\ Cardinality(ev.died) = 2 /\ Len(ev.gems) = 2

\* C7: when an enemy dies during a tick, a health pickup and a chest are each
\* rolled for it (besides the XP gem).
C7_DropsRolled ==
    Updated => Len(ev.rolled) = Cardinality(ev.died)

\* the progress of a cooldown gate at wall clock t (CooldownTimer.get_progress,
\* in 1/100 ms)
Progress(timer, t) == Min(t * 100 - timer.last_time, timer.duration)

\* what the simulation has reached: the clocks, the entities, the progress of
\* every weapon's cooldown and the age of every Garlic per-enemy tick timer
Simulation ==
    <<game_time, spawner, enemy_group, projectile_group, drop_group, player,
      [w \in DOMAIN weapons |-> Progress(weapons[w].cooldown_timer, now)],
      [k \in DOMAIN aura_timers |-> now - aura_timers[k]]>>

\* C10: while level_up_active is true, a call of Game.update leaves the
\* simulation unchanged; no weapon cooldown or Garlic per-enemy tick timer
\* makes progress.
C10_FrozenWhilePending ==
    [][(level_up_active /\ ev'.op = "update_skipped") => Simulation' = Simulation]_vars

-----------------------------------------------------------------------------
(* Properties of the inventory (SpecInv) *)

\* the inventory of the current state
Current == Inventory(weapons, passives, player)

\* C4: in every reachable inventory state get_upgrade_options(count) returns
\* exactly `count` options, never a shorter or an empty list, padding by
\* resampling from the pool when it has fewer than `count` candidates.
C4_ExactlyCount ==
    /\ \A count \in Counts :
          /\ GetUpgradeOptions(Current, count) # {}
          /\ \A returned \in GetUpgradeOptions(Current, count) :
                Len(returned) = count /\ returned # <<>>
    /\ ev.op = "get_upgrade_options" =>
          /\ Len(options) = ev.count
          /\ options # <<>>
          /\ \A i \in DOMAIN options :
                \E j \in DOMAIN Possible(Current) : options[i] = Possible(Current)[j]

\* get_upgrade_options(3) has returned three options from a pool of fewer
C4_Witness ==
    /\ ev.op = "get_upgrade_options"
    /\ ev.count = 3
    /\ Len(Possible(Current)) < 3
    /\ Len(options) = 3

\* C8: can_evolve is true if and only if the weapon's level equals max_level,
\* it is not yet evolved, it has an evolution target and the passive inventory
\* holds its evolution passive; check_evolutions never lists an evolved or a
\* below-max-level weapon.
C8_CanEvolveIff ==
    /\ \A w \in DOMAIN weapons :
         CanEvolve(weapons[w], DOMAIN passives)
           <=> /\ weapons[w].level = weapons[w].max_level
               /\ ~weapons[w].evolved
               /\ weapons[w].evolution_id # ""
               /\ weapons[w].evolution_passive \in DOMAIN passives
    /\ \A i \in DOMAIN CheckEvolutions(Current) :
         /\ ~weapons[CheckEvolutions(Current)[i]].evolved
         /\ weapons[CheckEvolutions(Current)[i]].level
              = weapons[CheckEvolutions(Current)[i]].max_level

\* evolve_weapon has evolved a weapon that could evolve: it is at the top level
\* with its passive held and can_evolve is now false for it, while another
\* weapon is below the top level
C8_Witness ==
    /\ ev.op = "evolve_weapon"
    /\ ev.ok
    /\ \E i \in DOMAIN ev.could_evolve : ev.could_evolve[i] = ev.id
    /\ weapons[ev.id].evolved
    /\ weapons[ev.id].level = weapons[ev.id].max_level
    /\ weapons[ev.id].evolution_passive \in DOMAIN passives
    /\ ~CanEvolve(weapons[ev.id], DOMAIN passives)
    /\ \E w \in DOMAIN weapons : weapons[w].level < weapons[w].max_level

\* C9: every owned unevolved weapon's damage, cooldown, area and amount equal
\* the closed form for its level and the player's current might and
\* cooldown_reduction (damage in 1/100, cooldown in 1/100 ms).
C9_ClosedForm ==
    \A w \in DOMAIN weapons :
       ~weapons[w].evolved =>
         /\ weapons[w].damage
              = (WEAPON_DATA[w].base_damage
                 + WEAPON_DATA[w].scaling.damage * (weapons[w].level - 1))
                * player.might * 10
         /\ weapons[w].cooldown
              = Max(100, WEAPON_DATA[w].base_cooldown
                         + WEAPON_DATA[w].scaling.cooldown * (weapons[w].level - 1))
                * (100 - player.cooldown_reduction)
         /\ weapons[w].area
              = WEAPON_DATA[w].base_area
                + WEAPON_DATA[w].scaling.area * (weapons[w].level - 1)
         /\ weapons[w].amount
              = IF WEAPON_DATA[w].scaling.amount > 0
                  THEN WEAPON_DATA[w].base_amount
                       + ((weapons[w].level - 1) \div 2) * WEAPON_DATA[w].scaling.amount
                  ELSE WEAPON_DATA[w].base_amount

\* a might or cooldown passive has been added while an unevolved weapon above
\* level 1 was owned
C9_Witness ==
    /\ ev.op = "add_passive"
    /\ ev.ok
    /\ ev.id \in {"might_boost", "cooldown_boost"}
    /\ \E w \in DOMAIN weapons : ~weapons[w].evolved /\ weapons[w].level > 1

-----------------------------------------------------------------------------
(* Properties of the game loop (Spec), continued *)

\* C11: for each enemy, two consecutive damage applications of the Garlic
\* aura are at least tick_rate (the weapon's cooldown) of wall clock time
\* apart, also after the enemy's entry of the timer map has been pruned and
\* the enemy is treated as new.
C11_AuraOncePerTickRate ==
    Updated =>
      \A a \in ev.aura : a.gap # -1 => a.gap * 100 >= a.tick_rate

\* the aura has damaged again an enemy whose timer had been pruned
C11_Witness ==
    /\ Updated
    /\ \E a \in ev.aura : a.gap * 100 >= 2 * a.tick_rate
    /\ \E a \in ev.aura : a.gap # -1 /\ a.gap * 100 = a.tick_rate

-----------------------------------------------------------------------------
(* The spawner alone: EnemySpawner.update called once per frame, late in a  *)
(* session, with the player anywhere in the world.  Positions are in pixels. *)

WINDOW_WIDTH == 1280
WINDOW_HEIGHT == 720
WORLD_WIDTH == 2000
WORLD_HEIGHT == 2000

\* utils.clamp
Clamp(value, min_val, max_val) == Max(min_val, Min(max_val, value))

\* math.sqrt((WINDOW_WIDTH/2)**2 + (WINDOW_HEIGHT/2)**2), rounded down
HalfDiagonal ==
    CHOOSE r \in 0..WINDOW_WIDTH :
      /\ r * r <= (WINDOW_WIDTH \div 2) * (WINDOW_WIDTH \div 2)
                  + (WINDOW_HEIGHT \div 2) * (WINDOW_HEIGHT \div 2)
      /\ (r + 1) * (r + 1) > (WINDOW_WIDTH \div 2) * (WINDOW_WIDTH \div 2)
                             + (WINDOW_HEIGHT \div 2) * (WINDOW_HEIGHT \div 2)

\* spawn_radius of get_spawn_position_outside_camera
SpawnRadius(buffer) == HalfDiagonal + buffer

\* <<cos(angle), sin(angle)>> for the angles random.uniform(0, 2 * pi) is
\* explored with: the multiples of pi / 2
Directions == {<<1, 0>>, <<0, 1>>, <<-1, 0>>, <<0, -1>>}

\* utils.get_spawn_position_outside_camera with the angle of direction dir
SpawnPositionOutsideCamera(player_pos, buffer, dir) ==
    <<Clamp(player_pos[1] + dir[1] * SpawnRadius(buffer), 50, WORLD_WIDTH - 50),
      Clamp(player_pos[2] + dir[2] * SpawnRadius(buffer), 50, WORLD_HEIGHT - 50)>>

\* the offsets random.uniform(-30, 30) is explored with, for x and y
SwarmOffsets == {<<-30, 30>>, <<30, -30>>}

\* spawn_enemy: the position of another member of a swarm whose first member
\* is at pos
SwarmPosition(pos, offset) ==
    <<Clamp(pos[1] + offset[1], 50, WORLD_WIDTH - 50),
      Clamp(pos[2] + offset[2], 50, WORLD_HEIGHT - 50)>>

\* where Player.move keeps the player (size 24), explored with: the centre of
\* the world, where a session starts, the middle of an edge and a corner
PlayerPositions ==
    {<<WORLD_WIDTH \div 2, WORLD_HEIGHT \div 2>>,
     <<WORLD_WIDTH - PLAYER_SETTINGS.size, WORLD_HEIGHT \div 2>>,
     <<PLAYER_SETTINGS.size, PLAYER_SETTINGS.size>>}

\* the 'size' of ENEMY_DATA
EnemySize(enemy_type) ==
    CASE enemy_type = "chaser" -> 16
      [] enemy_type = "tank" -> 24
      [] enemy_type = "swarm" -> 12
      [] enemy_type = "ghost" -> 20
      [] enemy_type = "bat" -> 14
      [] OTHER -> 48

\* a - b without sign
Dist(a, b) == IF a >= b THEN a - b ELSE b - a

\* player.hitbox.colliderect(enemy.hitbox): the player's hitbox is its rect
\* (2 * size wide) inflated by -8, the enemy's its rect inflated by -4
Touching(pos, enemy_type, player_pos) ==
    /\ Dist(pos[1], player_pos[1]) < (PLAYER_SETTINGS.size - 4) + (EnemySize(enemy_type) - 2)
    /\ Dist(pos[2], player_pos[2]) < (PLAYER_SETTINGS.size - 4) + (EnemySize(enemy_type) - 2)

\* the cell of an enemy at pos
CellAt(pos, enemy_type, player_pos) ==
    IF Touching(pos, enemy_type, player_pos) THEN 0 ELSE 1

\* the first member of the swarm of the i-th enemy created by one update: the
\* enemies of one spawn_enemy call are consecutive
Leader(created, i) ==
    IF created[i].enemy_type = "boss" THEN i
    ELSE i - ((i - 1) % ENEMY_DATA[created[i].enemy_type].spawn_count)

\* where the enemies created by one update are put: dir is the angle drawn
\* by spawn_enemy, boss_dir the angle drawn by spawn_boss, and offset the
\* offset of the other members of a swarm
Placed(created, player_pos, dir, boss_dir, offset) ==
    [i \in DOMAIN created |->
       IF created[i].enemy_type = "boss"
         THEN SpawnPositionOutsideCamera(player_pos, SPAWNER_SETTINGS.spawn_buffer, boss_dir)
       ELSE IF Leader(created, i) = i
         THEN SpawnPositionOutsideCamera(player_pos, SPAWNER_SETTINGS.spawn_buffer, dir)
       ELSE SwarmPosition(SpawnPositionOutsideCamera(player_pos,
                                                     SPAWNER_SETTINGS.spawn_buffer, dir),
                          offset)]

\* about the number of enemies spawned in the first t ms: the rate grows from
\* 1.0 by 0.1 per minute
SpawnedBy(t) == t \div 1000 + ((t \div 1000) * (t \div 1000)) \div 1200

\* the spawner of a session that has run for t ms in frames of 100 ms: the
\* next frame spawns, and a boss came with every boss_spawn_interval
Elapsed(t) ==
    [game_time |-> t,
     spawn_timer |-> SpawnInterval([NewSpawner EXCEPT !.game_time = t]) - 10000,
     last_boss_time |-> (t \div SPAWNER_SETTINGS.boss_spawn_interval)
                          * SPAWNER_SETTINGS.boss_spawn_interval,
     total_spawned |-> SpawnedBy(t)]

\* the game times the calls start from, ms
StartTimes == {59900, 89900, 599900, 1199900}

SpawnerInit ==
    /\ now = 0
    /\ dt = 0
    /\ in_main_menu = FALSE
    /\ game_started = TRUE
    /\ paused = FALSE
    /\ level_up_active = FALSE
    /\ game_over = FALSE
    /\ \E t \in StartTimes :
         /\ game_time = t
         /\ spawner = Elapsed(t)
         /\ ev = [op |-> "init", boss_at |-> Elapsed(t).last_boss_time]
    /\ cheat = CHEAT_SETTINGS
    /\ player = NewPlayer
    /\ weapons = <<>>
    /\ passives = <<>>
    /\ enemy_group = <<>>
    /\ projectile_group = <<>>
    /\ aura_timers = <<>>
    /\ drop_group = <<>>
    /\ options = <<>>
    /\ steps = 0
    /\ hist = NoHistory

\* self.spawner.update(self.dt, self.player.pos) in one frame of the session.
\* ev records the enemies created with their positions, the spawner before the
\* call and the game time of the last boss spawn (observation only)
SpawnerUpdateCall ==
    /\ steps < MaxSteps
    /\ \E ms \in FrameMs, player_pos \in PlayerPositions :
       \E enemy_type \in Input(SpawnDue(spawner, CappedDt(ms)), SpawnTypes, "chaser") :
       \E spawn \in {SpawnerUpdate(spawner, CappedDt(ms), enemy_type, 1)} :
       \E dir \in Input(SpawnDue(spawner, CappedDt(ms)), Directions, <<1, 0>>),
          boss_dir \in Input(BossDue(spawner, CappedDt(ms)), Directions, <<1, 0>>),
          offset \in Input(SpawnDue(spawner, CappedDt(ms)) /\ enemy_type = "swarm",
                           SwarmOffsets, <<-30, 30>>) :
       \E at \in {Placed(spawn[2], player_pos, dir, boss_dir, offset)} :
       \E created \in {[i \in DOMAIN at |->
                          [spawn[2][i] EXCEPT
                             !.cell = CellAt(at[i], spawn[2][i].enemy_type, player_pos)]]} :
         /\ now' = now + ms
         /\ dt' = CappedDt(ms)
         /\ game_time' = game_time + CappedDt(ms)
         /\ spawner' = spawn[1]
         /\ enemy_group' = enemy_group \o created
         /\ ev' = [op |-> "spawner_update", before |-> spawner, created |-> created,
                   at |-> at, player_pos |-> player_pos,
                   boss_gap |-> spawn[1].game_time - ev.boss_at,
                   boss_at |-> IF \E i \in DOMAIN created : created[i].enemy_type = "boss"
                                 THEN spawn[1].game_time ELSE ev.boss_at]
    /\ steps' = steps + 1
    /\ UNCHANGED <<in_main_menu, game_started, paused, level_up_active, game_over, cheat,
                   player, weapons, passives, projectile_group, aura_timers, drop_group,
                   options, hist>>

SpawnerNext == SpawnerUpdateCall

SpecSpawner == SpawnerInit /\ [][SpawnerNext]_vars

-----------------------------------------------------------------------------
(* Properties of the spawner (SpecSpawner) *)

\* the spawner has just been updated
Spawned == ev.op = "spawner_update"

\* the bosses created by the last update
Bosses ==
    IF Spawned THEN {ev.created[i] : i \in {j \in DOMAIN ev.created :
                                              ev.created[j].enemy_type = "boss"}}
    ELSE {}

\* C12: no boss is spawned while the spawner's game_time is below
\* boss_spawn_interval, at most one boss is spawned per update, two
\* consecutive boss spawns are at least boss_spawn_interval of spawner game
\* time apart since last_boss_time is set on the spawn, and a boss is created
\* with the difficulty multiplier diff(t) * 1.5.
C12_BossSpawning ==
    /\ Cardinality(Bosses) <= 1
    /\ Bosses # {} =>
         /\ spawner.game_time >= SPAWNER_SETTINGS.boss_spawn_interval
         /\ ev.boss_gap >= SPAWNER_SETTINGS.boss_spawn_interval
         /\ spawner.last_boss_time = spawner.game_time
    /\ \A boss \in Bosses :
         /\ (boss.max_hp \div 100) * 2 * 24000
              <= ENEMY_DATA["boss"].hp * 3 * (24000 + spawner.game_time \div 50)
         /\ ENEMY_DATA["boss"].hp * 3 * (24000 + spawner.game_time \div 50)
              < (boss.max_hp \div 100 + 1) * 2 * 24000

\* a second boss has been spawned, boss_spawn_interval after the first, in an
\* update that spawned a regular enemy too
C12_Witness ==
    /\ Bosses # {}
    /\ ev.before.last_boss_time > 0
    /\ ev.boss_gap = SPAWNER_SETTINGS.boss_spawn_interval
    /\ Len(ev.created) > 1

\* C13: every enemy the spawner creates at game time t has max HP
\* round(base_hp * diff(t)) and damage round(base_damage * (1 + (diff(t) - 1) *
\* 0.5)), both rounded to the nearest integer; diff(t) is the fraction
\* DifficultyMultiplier.
C13_RoundedToNearest ==
    Spawned =>
      \A i \in DOMAIN ev.created :
         ev.created[i].enemy_type # "boss" =>
           /\ 2 * Dist(ENEMY_DATA[ev.created[i].enemy_type].hp
                         * DifficultyMultiplier(spawner)[1],
                       (ev.created[i].max_hp \div 100) * DifficultyMultiplier(spawner)[2])
                <= DifficultyMultiplier(spawner)[2]
           /\ 2 * Dist(ENEMY_DATA[ev.created[i].enemy_type].damage
                         * (DifficultyMultiplier(spawner)[1]
                            + DifficultyMultiplier(spawner)[2]),
                       ev.created[i].damage * 2 * DifficultyMultiplier(spawner)[2])
                <= 2 * DifficultyMultiplier(spawner)[2]

\* C14: for every player position inside the world, every enemy and every
\* boss the spawner creates is placed outside the visible viewport around the
\* player (the first enemy of a spawn_enemy call and a boss on the ring of
\* radius half-viewport-diagonal + spawn_buffer), never inside the viewport
\* or on top of the player.
C14_OutsideViewport ==
    Spawned =>
      \A i \in DOMAIN ev.created :
         /\ \/ Dist(ev.at[i][1], ev.player_pos[1]) > WINDOW_WIDTH \div 2
            \/ Dist(ev.at[i][2], ev.player_pos[2]) > WINDOW_HEIGHT \div 2
         /\ ev.created[i].cell # 0
         /\ Leader(ev.created, i) = i =>
              Dist(ev.at[i][1], ev.player_pos[1]) + Dist(ev.at[i][2], ev.player_pos[2])
                = SpawnRadius(SPAWNER_SETTINGS.spawn_buffer)

-----------------------------------------------------------------------------
(* Properties of the game loop (Spec): the end of a session *)

\* what a call of Game.update after the end of the session must leave alone
Session ==
    <<game_time, spawner, enemy_group, projectile_group, drop_group, player, weapons,
      passives, aura_timers, level_up_active, game_over>>

\* C15: the player's hp is never negative and is 0 exactly when the player is
\* dead; game_over is set in the tick of the death, with the stats record
\* {time, level, kills, damage_dealt} reported; from then on a call of
\* Game.update changes nothing of the session.
C15_DeathIsTerminal ==
    /\ [](/\ player.hp >= 0
          /\ player.dead <=> player.hp = 0
          /\ game_over => player.dead
          /\ (player.dead /\ game_started) => game_over
          /\ Updated =>
               ev.stats = IF player.dead
                            THEN [time |-> game_time, level |-> player.level,
                                  kills |-> player.kills,
                                  damage_dealt |-> player.damage_dealt]
                            ELSE <<>>)
    /\ [][(game_over /\ ev'.op = "update_skipped") => Session' = Session]_vars

\* Game.update has been called after the player's death
C15_Witness ==
    /\ game_over
    /\ player.dead
    /\ player.hp = 0
    /\ ev.op = "update_skipped"

-----------------------------------------------------------------------------
(* Chests.  No code path of the game calls DropManager.spawn_enemy_drops,   *)
(* the one caller of spawn_chest, so a chest comes into a session only by a  *)
(* direct call of DropManager.spawn_chest; the frames of the game then run   *)
(* over it.                                                                  *)

\* the chests of a drop group
Chests(drops) == SelectSeq(drops, LAMBDA drop : drop.kind = "chest")

\* DropManager.spawn_chest(pos), called before the frames that are explored
SpawnChestCall ==
    /\ Running
    /\ ev.op \in {"init", "spawn_chest"}
    /\ steps < MaxSteps
    /\ Len(Chests(drop_group)) < MaxChests
    /\ \E pos \in Cells :
         drop_group' = Append(drop_group, NewChest(pos, -(steps + 1)))
    /\ steps' = steps + 1
    /\ ev' = NoEvent("spawn_chest")
    /\ UNCHANGED <<now, dt, in_main_menu, game_started, paused, level_up_active,
                   game_over, game_time, cheat, player, weapons, passives, spawner,
                   enemy_group, projectile_group, aura_timers, options, hist>>

\* a default session in progress
ChestInit ==
    \E session \in {s \in Sessions : s.cheat = Default("whip") /\ s.damage_taken = 0} :
    \E fresh \in {InitEntities(session.cheat)} :
       InProgress(session.cheat, fresh, session.killed, session.alive,
                  session.damage_taken)

\* the frames are explored until the first upgrade choice has been committed
ChestNext ==
    \/ SpawnChestCall
    \/ (hist.choices = 0 /\ Tick)
    \/ IdleFrame
    \/ SelectOption

SpecChest == ChestInit /\ [][ChestNext]_vars

\* C17: a chest is never magnetized and never moves; a frame collects a chest
\* only from within its collection distance (size + 10); a frame that collects
\* a chest opens the upgrade selection with three options that
\* get_upgrade_options can return, and when it collects no gem with it the
\* player's xp, level and xp_to_next_level are what they were before the frame
C17_ChestOpensSelection ==
    /\ [](\A i \in 1..Len(drop_group) :
            drop_group[i].kind = "chest" => ~drop_group[i].is_magnetized)
    /\ [][\A i \in 1..Len(drop_group), j \in 1..Len(drop_group') :
            (drop_group[i].kind = "chest" /\ drop_group'[j].src = drop_group[i].src)
              => drop_group'[j] = drop_group[i]]_vars
    /\ [](Updated
          => /\ \A t \in ev.taken : t.kind = "chest" => t.range = "take"
             /\ (\E t \in ev.taken : t.kind = "chest")
                  => /\ level_up_active
                     /\ options \in GetUpgradeOptions(Current, 3)
                     /\ (\A t \in ev.taken : t.kind # "xp")
                          => /\ player.xp = ev.xp_start
                             /\ player.level = ev.level_start
                             /\ player.xp_to_next_level = ev.xp_to_next_start)

\* a frame collected a chest and nothing else, and the selection is open
C17_Witness ==
    /\ Updated
    /\ \E t \in ev.taken : t.kind = "chest"
    /\ \A t \in ev.taken : t.kind = "chest"
    /\ level_up_active
    /\ Len(options) = 3
    /\ player.xp = ev.xp_start


\* C18: an add_weapon, add_passive or apply_upgrade call that returns False
\* (a weapon already at max_level, a passive already at its max level, a new
\* passive or weapon with the inventory full) changes nothing: every weapon
\* with its level, stats and cooldown gate, the passive levels and the
\* player's stat block are what they were before the call.  WEAPON_CLASSES has
\* five weapons and MAX_WEAPONS is 6, so no call finds the weapons full.
C18_RefusedCallsChangeNothing ==
    [][(ev'.op \in {"add_weapon", "add_passive", "apply_upgrade"} /\ ~ev'.ok)
         => /\ weapons' = weapons
            /\ passives' = passives
            /\ player' = player]_vars

\* add_passive has refused a new passive because six are held, and a weapon at
\* max_level and a passive at its max level are in the inventory
C18_Witness ==
    /\ ev.op = "add_passive"
    /\ ~ev.ok
    /\ ev.id \notin DOMAIN passives
    /\ Cardinality(DOMAIN passives) = MAX_PASSIVES
    /\ \E w \in DOMAIN weapons : weapons[w].level = weapons[w].max_level
    /\ \E p \in DOMAIN passives : passives[p] = PASSIVE_DATA[p].max_level


\* C19: after any sequence of apply_upgrade, add_weapon, add_passive and
\* evolve_weapon calls, also from the inventories that the cheat settings
\* build, the inventory holds each weapon type at most once (the weapon under
\* key w is of type w), at most MAX_WEAPONS weapons and MAX_PASSIVES passives,
\* every weapon's level is in 1..max_level and every passive's level is in
\* 1..max_level of the passive
C19_InventoryWellFormed ==
    /\ \A w \in DOMAIN weapons : w \in WeaponIds /\ weapons[w].weapon_id = w
    /\ Cardinality(DOMAIN weapons) <= MAX_WEAPONS
    /\ Cardinality(DOMAIN passives) <= MAX_PASSIVES
    /\ \A w \in DOMAIN weapons : weapons[w].level \in 1..weapons[w].max_level
    /\ \A p \in DOMAIN passives :
          p \in PassiveIds /\ passives[p] \in 1..PASSIVE_DATA[p].max_level

\* add_weapon has brought a weapon to its max_level while all five weapons
\* and six passives are held
C19_Witness ==
    /\ ev.op = "add_weapon"
    /\ ev.ok
    /\ weapons[ev.id].level = weapons[ev.id].max_level
    /\ Cardinality(DOMAIN passives) = MAX_PASSIVES
    /\ Cardinality(DOMAIN weapons) = Cardinality(WeaponIds)


\* C20: an effect that is not an aura (a projectile of the wand, the knife or
\* the axe, a WhipSlash) damages an enemy at most once: hit_enemy returns True
\* at most once for each pair of an effect and an enemy, however many
\* collision passes find the two overlapping
C20_OneHitPerEnemy ==
    \A p \in Effects \cup Retired :
       \A i, j \in DOMAIN p.hit_log : i # j => p.hit_log[i] # p.hit_log[j]

\* a collision pass found an effect overlapping an enemy that it had damaged
\* in an earlier pass, and no damage was dealt in this pass
C20_Witness ==
    /\ Updated
    /\ player.damage_dealt = ev.damage_dealt_start
    /\ \E p \in Effects :
       \E i \in DOMAIN enemy_group :
          /\ enemy_group[i].cell = p.cell
          /\ \E k \in DOMAIN p.hit_log : p.hit_log[k] = enemy_group[i].id


-----------------------------------------------------------------------------
(* The player alone: gain_xp and get_hit called directly on a new player,   *)
(* with add_passive of the controller changing its stats.  Game.update      *)
(* calls nothing on a dead player, and neither do these calls.              *)

\* the amounts of gain_xp: nothing, one gem, just below and exactly the first
\* threshold, and more than the first two thresholds together
XpAmounts == {0, 1, 49, 50, 130, 200}

\* the damage of the enemies that touch the player
HitDamages == {1, 20, 45}

PlayerInit ==
    /\ now = 0
    /\ dt = 0
    /\ in_main_menu = FALSE
    /\ game_started = TRUE
    /\ paused = FALSE
    /\ level_up_active = FALSE
    /\ game_over = FALSE
    /\ game_time = 0
    /\ cheat = CHEAT_SETTINGS
    /\ \E inv \in {InitEntities(CHEAT_SETTINGS)} :
         /\ player = inv.player
         /\ weapons = inv.weapons
         /\ passives = inv.passives
    /\ spawner = NewSpawner
    /\ enemy_group = <<>>
    /\ projectile_group = <<>>
    /\ aura_timers = <<>>
    /\ drop_group = <<>>
    /\ options = <<>>
    /\ steps = 0
    /\ hist = NoHistory
    /\ ev = NoEvent("init")

\* player.gain_xp(amount)
GainXpCall ==
    /\ ~player.dead
    /\ steps < MaxCalls
    /\ \E amount \in XpAmounts :
       \E r \in {GainXp(player, amount)} :
          /\ player' = r[2]
          /\ ev' = [op |-> "gain_xp", amount |-> amount, ok |-> r[1], before |-> player]
    /\ steps' = steps + 1
    /\ UNCHANGED <<now, dt, in_main_menu, game_started, paused, level_up_active,
                   game_over, game_time, cheat, weapons, passives, spawner, enemy_group,
                   projectile_group, aura_timers, drop_group, options, hist>>

\* player.get_hit(damage) followed by the end of the invincibility frames
GetHitCall ==
    /\ ~player.dead
    /\ steps < MaxCalls
    /\ \E damage \in HitDamages :
       \E r \in {GetHit(player, damage, cheat.unlimited_health)} :
          /\ player' = UpdateIFrames(r[2], r[2].i_frames_duration)
          /\ ev' = [op |-> "get_hit", amount |-> damage, ok |-> r[1], before |-> player]
    /\ steps' = steps + 1
    /\ UNCHANGED <<now, dt, in_main_menu, game_started, paused, level_up_active,
                   game_over, game_time, cheat, weapons, passives, spawner, enemy_group,
                   projectile_group, aura_timers, drop_group, options, hist>>

PlayerNext ==
    \/ GainXpCall
    \/ GetHitCall
    \/ (~player.dead /\ AddPassiveCall)

SpecPlayer == PlayerInit /\ [][PlayerNext]_vars

\* C21: xp_to_next_level is 50 at level 1 and floor((100 + (L-1)*50) / 2) at
\* every level L >= 2; a gain_xp that levels up subtracts the old threshold
\* from xp, adds exactly 1 to level and heals 10% of max_hp, capped at max_hp
C21_HalvedCurve ==
    /\ player.level = 1 => player.xp_to_next_level = 50
    /\ player.level >= 2
         => player.xp_to_next_level = (100 + (player.level - 1) * 50) \div 2
    /\ (ev.op = "gain_xp" /\ ev.ok)
         => /\ player.xp = ev.before.xp + ev.amount - ev.before.xp_to_next_level
            /\ player.level = ev.before.level + 1
            /\ player.hp = Min(ev.before.hp + ev.before.max_hp \div 10, ev.before.max_hp)

\* a level_up has brought a hurt player to level 3 and healed less than the
\* 10%, up to max_hp
C21_Witness ==
    /\ ev.op = "gain_xp"
    /\ ev.ok
    /\ player.level = 3
    /\ player.hp = player.max_hp
    /\ ev.before.hp < ev.before.max_hp
    /\ ev.before.hp + ev.before.max_hp \div 10 > ev.before.max_hp


\* C22: in every reachable state of the game 0 <= hp <= max_hp for the player
\* (contact damage, reduced by armor to no less than 1, clamps at 0; heal,
\* regeneration, the level-up heal and the max_hp passive stay at or below
\* max_hp), the player is dead exactly at hp 0, and every enemy in the enemy
\* group has hp > 0
C22_HpInRange ==
    /\ 0 <= player.hp
    /\ player.hp <= player.max_hp
    /\ player.dead <=> player.hp = 0
    /\ \A i \in DOMAIN enemy_group : enemy_group[i].hp > 0
    /\ (Updated /\ player.damage_taken > 0 /\ player.hp < ev.hp_start)
         => ev.hp_start - player.hp >= 10 \/ player.level > ev.level_start

\* a frame in which regeneration was cut off at max_hp, after contacts that
\* armor had reduced to the floor of 1 damage
C22_Witness ==
    /\ Updated
    /\ player.level = ev.level_start
    /\ ev.hp_start < player.max_hp
    /\ ev.hp_start + player.regen > player.max_hp
    /\ player.hp = player.max_hp
    /\ player.armor >= 5
    /\ player.damage_taken = 2


\* C23: an option that get_upgrade_options can return is applicable when it is
\* offered: apply_upgrade with it returns True; and evolve_weapon for a weapon
\* that check_evolutions lists returns True and leaves the weapon evolved, so
\* that check_evolutions does not list it again
C23_OffersAreApplicable ==
    /\ ev.op = "apply_upgrade" => ev.ok
    /\ (ev.op = "evolve_weapon" /\ \E k \in DOMAIN ev.could_evolve : ev.could_evolve[k] = ev.id)
         => /\ ev.ok
            /\ weapons[ev.id].evolved
            /\ \A k \in DOMAIN CheckEvolutions(Current) : CheckEvolutions(Current)[k] # ev.id


\* C24: the damage of an evolved weapon is, in every state, the closed-form
\* damage for its level and the player's might multiplied by the damage_mult
\* of its evolution (in tenths), also after an add_passive call has
\* recomputed the stats of all weapons
C24_EvolutionBonusKept ==
    \A w \in DOMAIN weapons :
       weapons[w].evolved =>
         weapons[w].damage
           = ((WEAPON_DATA[w].base_damage
               + WEAPON_DATA[w].scaling.damage * (weapons[w].level - 1))
              * player.might * 10 * EVOLUTION_DATA[weapons[w].evolution_id].damage_mult)
             \div 10


\* C25: every upgrade trigger (a level gained by the player, a chest
\* collected) is answered by its own upgrade choice: whenever no selection is
\* pending in a session that has not ended, the choices committed so far are
\* as many as the triggers so far, also when several triggers fell into one
\* tick
C25_EveryTriggerAnswered ==
    (~level_up_active /\ ~game_over) => hist.choices = hist.triggers


\* C26: after every gain_xp call, for any amount >= 0, the player's xp
\* satisfies 0 <= xp < xp_to_next_level: no earned level-up is left pending
C26_XpBelowThreshold ==
    ev.op = "gain_xp" => (0 <= player.xp /\ player.xp < player.xp_to_next_level)


\* C27: player.kills is the number of enemies that have died in the session,
\* whichever weapon killed them, and player.damage_dealt is the sum of the
\* damage applications made to enemies: every Game.update adds to kills the
\* enemies that died in it and to damage_dealt the damage applied in it
C27_StatisticsExact ==
    [][ev'.op = "update"
         => /\ player'.kills - player.kills = hist'.deaths - hist.deaths
            /\ player'.damage_dealt - player.damage_dealt
                 = hist'.damage_applied - hist.damage_applied]_vars


\* C28: at most one of paused, level_up_active and game_over is true in any
\* state; in particular no upgrade selection is pending in a session that has
\* ended
C28_ExclusiveSessionStates ==
    /\ ~(paused /\ level_up_active)
    /\ ~(paused /\ game_over)
    /\ ~(level_up_active /\ game_over)


\* C29: Game.game_time is the simulated time of the current session only: a
\* session just started, by reset or by start from the main menu, has
\* game_time 0, and in every running state game_time equals the spawner's
\* game_time
C29_TimeOfThisSession ==
    /\ ev.op \in {"reset", "start"} => game_time = 0
    /\ Running => game_time = spawner.game_time


-----------------------------------------------------------------------------
(* A drop alone: Drop.update called every frame on one XP gem while the     *)
(* player stands still.  The gem moves on the line through the player, so    *)
(* its position is its signed offset from the player on that line, in 1/1000 *)
(* pixel; the frame length is the same in every frame of a run.             *)

\* Player.pickup_radius in pixels
PickupRadius(pl) == pl.pickup_radius \div 3125

\* the distance of a drop to the player, in 1/1000 pixel
Distance(drop) == IF drop.pos < 0 THEN -drop.pos ELSE drop.pos

\* Drop.magnetize(player_pos, pickup_radius, dt) with the player at offset 0,
\* pickup_radius in pixels and dt = d ms: <<returned value, the drop
\* afterwards>>.  speed * dt = magnet_speed * (1 + (pickup_radius - distance)
\* / pickup_radius) * dt with magnet_speed 500
Magnetize(drop, pickup_radius, d) ==
    LET distance == Distance(drop)
        is_magnetized == drop.is_magnetized \/ distance <= pickup_radius * 1000
        step == (d * (2 * pickup_radius * 1000 - distance)) \div (2 * pickup_radius)
    IN IF is_magnetized /\ distance > 5000
         THEN <<FALSE, [drop EXCEPT !.is_magnetized = TRUE,
                                    !.pos = IF drop.pos < 0 THEN -(distance - step)
                                            ELSE distance - step]>>
       ELSE IF is_magnetized THEN <<TRUE, [drop EXCEPT !.is_magnetized = TRUE]>>
       ELSE <<FALSE, drop>>

\* Drop.update in pixels
DropUpdateAt(drop, pickup_radius, d) ==
    LET r == Magnetize(drop, pickup_radius, d)
    IN IF r[1] THEN [r[2] EXCEPT !.collected = TRUE] ELSE r[2]

\* the frame lengths of the runs, in ms: 60 frames per second, slow frames and
\* the cap of Game.run
MagnetFrameMs == {17, 33, 50, 100}

\* where the gem lies when the run starts, in pixels from the player
GemOffsets == {6 + 2 * k : k \in 0..45}

DropInit ==
    /\ now = 0
    /\ \E ms \in MagnetFrameMs : dt = ms
    /\ in_main_menu = FALSE
    /\ game_started = TRUE
    /\ paused = FALSE
    /\ level_up_active = FALSE
    /\ game_over = FALSE
    /\ game_time = 0
    /\ cheat = CHEAT_SETTINGS
    /\ \E inv \in {InitEntities(CHEAT_SETTINGS)} :
         /\ player = inv.player
         /\ weapons = inv.weapons
         /\ passives = inv.passives
    /\ spawner = NewSpawner
    /\ enemy_group = <<>>
    /\ projectile_group = <<>>
    /\ aura_timers = <<>>
    /\ \E offset \in GemOffsets :
         drop_group = <<[NewGem([xp_value |-> 1, pos |-> offset * 1000, id |-> 1])
                           EXCEPT !.is_magnetized = offset <= PickupRadius(player)]>>
    /\ options = <<>>
    /\ steps = 0
    /\ hist = NoHistory
    /\ ev = NoEvent("init")

\* one frame: DropManager.update with the player where it was
DropUpdateCall ==
    /\ drop_group # <<>>
    /\ \E drop \in {DropUpdateAt(drop_group[1], PickupRadius(player), dt)} :
         /\ drop_group' = IF drop.collected THEN <<>> ELSE <<drop>>
         /\ ev' = [op |-> "drop_update", before |-> drop_group[1], after |-> drop]
    /\ UNCHANGED <<now, dt, in_main_menu, game_started, paused, level_up_active,
                   game_over, game_time, cheat, player, weapons, passives, spawner,
                   enemy_group, projectile_group, aura_timers, options, steps, hist>>

DropNext == DropUpdateCall

\* the game loop runs a frame after a frame
SpecDrop == DropInit /\ [][DropNext]_vars /\ WF_vars(DropNext)

\* C30: a magnetized XP gem, the player standing still, comes closer to the
\* player or stays where it is in every frame (its distance to the player
\* never increases), and it is collected after finitely many frames, for
\* each of the frame lengths
C30_MagnetConverges ==
    /\ [][(drop_group # <<>> /\ drop_group[1].is_magnetized)
            => Distance(ev'.after) <= Distance(drop_group[1])]_vars
    /\ (drop_group # <<>> /\ drop_group[1].is_magnetized) ~> (drop_group = <<>>)

=============================================================================
